---- MODULE Spec2Model ----
(***************************************************************************)
(* Model of the GodotJS runtime bridge (jsb::Environment): the object      *)
(* binding table (objects_, objects_index_, persistent_objects_), the      *)
(* instance registry (EnvironmentStore) and the destructor of the bridge.  *)
(* All line numbers refer to src/bridge/jsb_module_resolver.cpp.           *)
(*                                                                         *)
(* A failed jsb_check/jsb_checkf aborts the process: the model records the *)
(* assertion in `fault` and no further step is taken.                      *)
(***************************************************************************)
EXTENDS Integers, Sequences, FiniteSets, TLC

\* ------------------------------------------------------------------ bounds
\* ref_count_ is capped: increments are only issued below this value.
MaxRef == 2
\* at most this many module bodies are run
MaxExec == 3
\* a source file is edited until its fingerprint has this value
MaxVersion == 2

\* the ring buffer pending_delete_ holds at most this many variants
QueueCapacity == 1
\* at most this many ids are handed out by function_bank_
MaxFuncIds == 3
\* a resolver has at most this many search paths
MaxSearchPaths == 2

\* ------------------------------------------------------------- input sets
\* the thread that constructed the bridge (thread_id_) and one other thread
OwnerThread == "main"
Threads == {"main", "worker"}
Pointers == {"p1", "p2"}
\* paths are sequences of segments; an absolute path starts with the root
Root == "res:"
\* the script files on disk
SourceFiles == {<<Root, "a", "b.js">>, <<Root, "c.js">>, <<Root, "lib", "c.js">>,
                <<Root, "lib", "d.js">>, <<Root, "godot.js">>,
                <<Root, "pkg", "index.js">>, <<Root, "c", "index.js">>}
\* the package descriptors on disk: whether the JSON parses, and its "main" entry
PackageFiles ==
    (<<Root, "pkg", "package.json">> :> [parsed |-> TRUE, main |-> <<"index.js">>]) @@
    (<<Root, "c", "package.json">> :> [parsed |-> TRUE, main |-> <<"index">>]) @@
    (<<Root, "bad", "package.json">> :> [parsed |-> FALSE, main |-> <<>>]) @@
    (<<Root, "nomain", "package.json">> :> [parsed |-> TRUE, main |-> <<"missing.js">>])
\* the identifiers handed to require / load
RequestIds == {<<"godot">>, <<"a", "b">>, <<".", "c">>, <<"..", "c">>, <<"c">>, <<"d">>,
               <<"pkg">>, <<"bad">>, <<"nomain">>}
\* the identifiers handed to mark_as_reloading
MarkIds == {<<Root, "c.js">>, <<Root, "lib", "d.js">>, <<"godot">>}
\* the modules whose body calls require, and the empty parent of a top-level load
ParentIds == {<<>>, <<Root, "a", "b.js">>}
\* the source files that are edited while the program runs
EditedFiles == {<<Root, "c.js">>}
\* the source files whose body does not always run to its end with the exports it
\* was given
UnstableFiles == {<<Root, "c.js">>}
\* the source files whose exports define a script class
ScriptFiles == {<<Root, "a", "b.js">>}
\* what happens when a source file is read and its body run
\* ("replace": the body assigns a new value to module.exports and returns)
Outcomes == {"ok", "replace", "throw", "unreadable"}
\* the Variants handed to bind_valuetype, and their types
Variants == {"v1", "v2"}
Functions == {"f1", "f2"}
VariantTypes == {"VECTOR2", "CALLABLE", "ARRAY", "DICTIONARY"}
JSObjects == {"o1", "o2"}
ObjectIDs == {"h1", "h2"}
Policies == {"Managed", "External"}
NullPtr == "nullptr"
\* class ids handed to bind_pointer: an object class, a primitive (valuetype)
\* class and an id that is not in native_classes_.
ClassInputs == {"Node", "Vector2", "bad"}

VARIABLES
    objects,            \* objects_ : NativeObjectID -> ObjectHandle
    objects_index,      \* objects_index_ : pointer -> NativeObjectID
    persistent_objects, \* persistent_objects_
    native_classes,     \* native_classes_ : NativeClassID -> NativeClassInfo
    internal_field,     \* IF_Pointer of every script object
    all_runtimes,       \* EnvironmentStore::all_runtimes_ has this instance
    isolate_,           \* "alive" or "disposed"
    dtor_pc,            \* position of ~Environment ("alive" before it starts)
    fin_stack,          \* class finalizers that are executing, innermost last
    fault,              \* the assertion that aborted the process, or "none"
    last,               \* the call made by the last step and what it saw
    torn_down,          \* the steps of ~Environment that have completed
    lock_,              \* EnvironmentStore::lock_ : the thread holding it, or "none"
    owner_ref,          \* the std::shared_ptr the owner of the bridge holds is alive
    cb,                 \* per thread: the instance binding callback it is executing
    module_cache,       \* module_cache_ : module id -> JavaScriptModule
    exec_count,         \* per source path: how often its body has been run
    files,              \* per source path: the fingerprint of the file on disk
    mlast,              \* the module operation made by the last step
    scan,               \* scan_external_changes: its position and requested_modules
    slast,              \* the last call of get_source_info: its arguments and results
    variants,           \* per Variant bound by bind_valuetype: type, state, thread that freed it
    pending_delete,     \* pending_delete_ : the ring buffer of variants to free
    function_bank,      \* function_bank_ : ObjectCacheID -> TStrongRef (function, count)
    function_refs,      \* function_refs_ : function -> ObjectCacheID (the back-link)
    function_ids,       \* the number of ids function_bank_ has handed out
    flast               \* the function cache operation made by the last step

\* the binding table, the registry entry and the destructor
objvars == <<objects, objects_index, persistent_objects, native_classes,
             internal_field, all_runtimes, isolate_, dtor_pc, fin_stack, last, torn_down>>
\* the registry lock, the owners of the bridge and the callbacks in progress
regvars == <<lock_, owner_ref, cb>>
\* the module cache and the files it was loaded from
modvars == <<module_cache, exec_count, files, mlast, scan, slast>>

\* the valuetype variants and the queue of deferred deletions
delvars == <<variants, pending_delete>>

\* the function cache
funvars == <<function_bank, function_refs, function_ids, flast>>

vars == <<objvars, fault, regvars, modvars, delvars, funvars>>

\* ---------------------------------------------------------------- helpers
Remove(f, k) == [x \in DOMAIN f \ {k} |-> f[x]]

\* objects_index_.has(p_pointer)
HasIndex(p) == p \in DOMAIN objects_index

\* the handles of objects_ whose pointer field is p
HandlesOf(p) == {id \in DOMAIN objects : objects[id].pointer = p}

\* what the call about to be made sees of p_pointer, and what it did
Call(op, p, inc, ret, effects, fin) ==
    [op |-> op, ptr |-> p, is_inc |-> inc, ret |-> ret,
     pre_bound |-> HasIndex(p),
     pre_ref_count |-> IF HasIndex(p) THEN objects[objects_index[p]].ref_count_ ELSE 0,
     pre_persistent |-> p \in persistent_objects,
     effects |-> effects, finalizer_calls |-> fin, thread |-> OwnerThread]

\* native code (or a running finalizer, which receives the Environment) may
\* call into the bridge while it is alive; once the destructor has started
\* the owning thread is inside it and only a finalizer can make calls.
CanCall == fault = "none" /\ (dtor_pc = "alive" \/ fin_stack # <<>>)

\* a thread that is not executing a binding callback
IdleCb == [pc |-> "idle", kind |-> "free", ptr |-> NullPtr, rval |-> "empty"]

\* no callback is in progress, the registry lock is free, the owner holds the bridge
RegInit ==
    /\ lock_ = "none"
    /\ owner_ref = TRUE
    /\ cb = [t \in Threads |-> IdleCb]

\* scan_external_changes is not executing
ScanIdle == [pc |-> "idle", collected |-> {}, pending |-> {}, calls |-> <<>>]

\* an empty module cache; no file has been run
ModInit ==
    /\ scan = ScanIdle
    /\ slast = [op |-> "Environment", search_paths |-> <<>>, id |-> <<>>, ret |-> FALSE,
                r_source_info |-> [source_filepath |-> <<>>, package_filepath |-> <<>>],
                checked |-> <<>>]
    /\ module_cache = <<>>
    /\ exec_count = [f \in SourceFiles |-> 0]
    /\ files = [f \in SourceFiles |-> 1]
    /\ mlast = [op |-> "Environment", id |-> <<>>, parent |-> <<>>, ret |-> "void",
                error |-> "none", loader |-> FALSE, handed |-> <<>>, consulted |-> <<>>,
                path |-> <<>>, ran |-> 0, replaced |-> FALSE, code |-> "none"]

\* an empty function cache
FunInit ==
    /\ function_bank = <<>>
    /\ function_refs = <<>>
    /\ function_ids = 0
    /\ flast = [op |-> "Environment", func |-> "none", id |-> 0, ret |-> "void"]

\* no variant is bound, nothing waits to be freed
DelInit ==
    /\ variants = [v \in Variants |-> [type |-> "NIL", state |-> "unbound", freed_by |-> "none"]]
    /\ pending_delete = <<>>

Init ==
    /\ objects = <<>>
    /\ objects_index = <<>>
    /\ persistent_objects = {}
    /\ native_classes = [c \in {"Node", "Vector2"} |->
                            [type |-> IF c = "Vector2" THEN "GodotPrimitive" ELSE "GodotObject"]]
    /\ internal_field = [o \in JSObjects |-> NullPtr]
    /\ all_runtimes = TRUE
    /\ isolate_ = "alive"
    /\ dtor_pc = "alive"
    /\ fin_stack = <<>>
    /\ fault = "none"
    /\ last = [op |-> "Environment", ptr |-> NullPtr, is_inc |-> FALSE, ret |-> "void",
               pre_bound |-> FALSE, pre_ref_count |-> 0, pre_persistent |-> FALSE,
               effects |-> <<>>, finalizer_calls |-> 0, thread |-> OwnerThread]
    /\ torn_down = {}
    /\ RegInit
    /\ ModInit
    /\ DelInit
    /\ FunInit

\* ------------------------------------------------------------ bind_pointer
\* bind_pointer without the 'duplicated bindings' check
BindFault_NoDuplicateCheck(c, p) ==
    IF c \notin DOMAIN native_classes THEN "bad class_id"
    ELSE IF native_classes[c].type = "GodotPrimitive" THEN "valuetype object"
    ELSE "none"

\* the assertion bind_pointer trips for (p_class_id, p_pointer), "none" if it passes
BindFault(c, p) ==
    IF c \notin DOMAIN native_classes THEN "bad class_id"
    ELSE IF HasIndex(p) THEN "duplicated bindings"
    ELSE IF native_classes[c].type = "GodotPrimitive" THEN "valuetype object"
    ELSE "none"

\* bind_pointer that leaves ref_count_ at 0 for an External binding
NewHandle_ExternalZero(c, p, o, policy) ==
    [class_id |-> c, pointer |-> p, ref_ |-> o,
     weak |-> (policy = "Managed"),
     ref_count_ |-> 0]

\* the handle as bind_pointer leaves it
NewHandle(c, p, o, policy) ==
    [class_id |-> c, pointer |-> p, ref_ |-> o,
     weak |-> (policy = "Managed"),
     ref_count_ |-> IF policy = "Managed" THEN 0 ELSE 1]

\* the script objects a handle of objects_ refers to
HeldObjects == {objects[id].ref_ : id \in DOMAIN objects}

\* p_object is the script object under construction: no handle refers to it yet
BindPointer(c, p, o, policy) ==
    /\ CanCall
    /\ o \notin HeldObjects
    /\ last' = Call("bind_pointer", p, FALSE, "void", <<>>, 0)
    /\ fault' = BindFault(c, p)
    /\ IF BindFault(c, p) = "none"
       THEN \E id \in ObjectIDs \ DOMAIN objects :
               /\ objects' = (id :> NewHandle(c, p, o, policy)) @@ objects
               /\ objects_index' = (p :> id) @@ objects_index
               /\ internal_field' = [internal_field EXCEPT ![o] = p]
       ELSE UNCHANGED <<objects, objects_index, internal_field>>
    /\ UNCHANGED <<persistent_objects, native_classes, all_runtimes, isolate_, dtor_pc, fin_stack>>
    /\ UNCHANGED <<torn_down, regvars, modvars, funvars, delvars>>


\* ------------------------------------------------------- reference_object
\* the adding branch without `ClearWeak`
AddReference_KeepWeak(h) ==
    [h EXCEPT !.ref_count_ = @ + 1]

\* the adding branch: the handle after `ClearWeak` (when it was weak) and `++ref_count_`
AddReference(h) ==
    [h EXCEPT !.weak = FALSE, !.ref_count_ = @ + 1]

\* the calls the adding branch makes on the handle, in program order
AddReferenceEffects(h) ==
    IF h.ref_count_ = 0 THEN <<"ClearWeak", "++ref_count_">> ELSE <<"++ref_count_">>

\* the removing branch without `SetWeak`
RemoveReference_NoSetWeak(h) ==
    IF h.ref_count_ = 0 THEN h
    ELSE [h EXCEPT !.ref_count_ = @ - 1]

\* the removing branch: nothing at 0, else `--ref_count_` and `SetWeak` on reaching 0
RemoveReference(h) ==
    IF h.ref_count_ = 0 THEN h
    ELSE [h EXCEPT !.ref_count_ = @ - 1, !.weak = (h.ref_count_ - 1 = 0)]

RemoveReferenceEffects(h) ==
    IF h.ref_count_ = 0 THEN <<>>
    ELSE IF h.ref_count_ - 1 = 0 THEN <<"--ref_count_", "SetWeak">>
    ELSE <<"--ref_count_">>

\* reference_object that reports true only when the call itself reached 0
ReferenceResult_OnlyOnReachingZero(h, p_is_inc) ==
    IF p_is_inc THEN FALSE
    ELSE h.ref_count_ = 1

\* the value reference_object returns for a bound handle ("return true if can die")
ReferenceResult(h, p_is_inc) ==
    IF p_is_inc THEN FALSE
    ELSE IF h.ref_count_ = 0 THEN TRUE
    ELSE h.ref_count_ - 1 = 0

\* the assertion reference_object trips on a bound handle, "none" if it passes
ReferenceFault(h) ==
    IF h.class_id \notin DOMAIN native_classes THEN "bad class_id"
    ELSE IF native_classes[h.class_id].type = "GodotPrimitive" THEN "valuetype object"
    ELSE "none"

BoolStr(b) == IF b THEN "true" ELSE "false"

\* reference_object that reports false for a pointer it does not know
DoReference_UnknownFalse(op, p, p_is_inc) ==
    IF ~HasIndex(p)
    THEN /\ last' = Call(op, p, p_is_inc, "false", <<>>, 0)
         /\ UNCHANGED <<objects, fault>>
    ELSE LET id == objects_index[p]
             h == objects[id]
         IN /\ objects' = [objects EXCEPT ![id] =
                              IF p_is_inc THEN AddReference(h) ELSE RemoveReference(h)]
            /\ last' = Call(op, p, p_is_inc, BoolStr(ReferenceResult(h, p_is_inc)),
                            IF p_is_inc THEN AddReferenceEffects(h) ELSE RemoveReferenceEffects(h), 0)
            /\ UNCHANGED fault

\* the effect of reference_object(p_pointer, p_is_inc) on the tables, under the name `op`
\* of the entry point that made the call
DoReference(op, p, p_is_inc) ==
    IF ~HasIndex(p)
    THEN /\ last' = Call(op, p, p_is_inc, "true", <<>>, 0)
         /\ UNCHANGED <<objects, fault>>
    ELSE LET id == objects_index[p]
             h == objects[id]
         IN IF ReferenceFault(h) # "none"
            THEN /\ fault' = ReferenceFault(h)
                 /\ last' = Call(op, p, p_is_inc, "void", <<>>, 0)
                 /\ UNCHANGED objects
            ELSE /\ objects' = [objects EXCEPT ![id] =
                                   IF p_is_inc THEN AddReference(h) ELSE RemoveReference(h)]
                 /\ last' = Call(op, p, p_is_inc, BoolStr(ReferenceResult(h, p_is_inc)),
                                 IF p_is_inc THEN AddReferenceEffects(h) ELSE RemoveReferenceEffects(h), 0)
                 /\ UNCHANGED fault

\* a caller never holds more than MaxRef references on one object
MayReference(p, p_is_inc) ==
    p_is_inc /\ HasIndex(p) => objects[objects_index[p]].ref_count_ < MaxRef

ReferenceObject(p, p_is_inc) ==
    /\ CanCall
    /\ MayReference(p, p_is_inc)
    /\ DoReference("reference_object", p, p_is_inc)
    /\ UNCHANGED <<objects_index, persistent_objects, native_classes, internal_field,
                   all_runtimes, isolate_, dtor_pc, fin_stack>>
    /\ UNCHANGED <<torn_down, regvars, modvars, funvars, delvars>>

\* --------------------------------------------- mark_as_persistent_object
\* a marking without the check for a pointer that is persistent already
MarkAsPersistentObject_NoDuplicateCheck(p) ==
    /\ CanCall
    /\ MayReference(p, TRUE)
    /\ IF ~HasIndex(p)
       THEN /\ last' = Call("mark_as_persistent_object", p, TRUE, "void", <<>>, 0)
            /\ UNCHANGED <<objects, persistent_objects, fault>>
       ELSE /\ DoReference("mark_as_persistent_object", p, TRUE)
            /\ persistent_objects' = persistent_objects \cup {p}
    /\ UNCHANGED <<objects_index, native_classes, internal_field,
                   all_runtimes, isolate_, dtor_pc, fin_stack>>
    /\ UNCHANGED <<torn_down, regvars, modvars, funvars, delvars>>

MarkAsPersistentObject(p) ==
    /\ CanCall
    /\ MayReference(p, TRUE)
    /\ IF ~HasIndex(p)
       THEN /\ last' = Call("mark_as_persistent_object", p, TRUE, "void", <<>>, 0)
            /\ UNCHANGED <<objects, persistent_objects, fault>>
       ELSE IF p \in persistent_objects
       THEN /\ fault' = "duplicate adding persistent object"
            /\ last' = Call("mark_as_persistent_object", p, TRUE, "void", <<>>, 0)
            /\ UNCHANGED <<objects, persistent_objects>>
       ELSE /\ DoReference("mark_as_persistent_object", p, TRUE)
            /\ persistent_objects' = persistent_objects \cup {p}
    /\ UNCHANGED <<objects_index, native_classes, internal_field,
                   all_runtimes, isolate_, dtor_pc, fin_stack>>
    /\ UNCHANGED <<torn_down, regvars, modvars, funvars, delvars>>

\* ------------------------------------------------------------ free_object
\* the finalizer invocation with is_persistent read after the erase from the persistent set
FinalizerCall_AfterErase(h, is_persistent) ==
    [pointer |-> h.pointer, class_id |-> h.class_id, was_persistent |-> FALSE]

\* the finalizer invocation free_object makes for a handle: the frame of the call
FinalizerCall(h, is_persistent) ==
    [pointer |-> h.pointer, class_id |-> h.class_id, was_persistent |-> is_persistent]

\* the class finalizers free_object(p_pointer, p_free) invokes
FinalizerCalls(h, is_persistent, p_free) ==
    IF p_free THEN <<FinalizerCall(h, is_persistent)>> ELSE <<>>

\* the assertion free_object trips, "none" if it passes
FreeObjectFault(p) ==
    IF ~HasIndex(p) THEN "objects_index_.has(p_pointer)"
    ELSE IF objects_index[p] \notin DOMAIN objects THEN "bad pointer"
    ELSE IF objects[objects_index[p]].pointer # p THEN "object_handle.pointer == p_pointer"
    ELSE "none"

\* free_object that invokes the finalizer before it removes the index entry and the handle
FreeObject_FinalizerFirst(op, p, p_free) ==
    LET id == objects_index[p]
        h == objects[id]
        is_persistent == p \in persistent_objects
        calls == FinalizerCalls(h, is_persistent, p_free)
    IN /\ persistent_objects' = IF p_free THEN persistent_objects ELSE persistent_objects \ {p}
       /\ objects_index' = IF p_free THEN objects_index ELSE Remove(objects_index, p)
       /\ internal_field' = IF ~p_free THEN [internal_field EXCEPT ![h.ref_] = NullPtr]
                            ELSE internal_field
       /\ objects' = IF p_free THEN objects ELSE Remove(objects, id)
       /\ fin_stack' = fin_stack \o calls
       /\ last' = Call(op, p, FALSE, "void", <<>>, Len(calls))
       /\ UNCHANGED fault

\* free_object(p_pointer, p_free) up to and including the call of the finalizer;
\* the finalizer's body runs in the following steps, until FinalizerReturn
FreeObject(op, p, p_free) ==
    IF FreeObjectFault(p) # "none"
    THEN /\ fault' = FreeObjectFault(p)
         /\ last' = Call(op, p, FALSE, "void", <<>>, 0)
         /\ UNCHANGED <<objects, objects_index, persistent_objects, internal_field, fin_stack>>
    ELSE LET id == objects_index[p]
             h == objects[id]
             is_persistent == p \in persistent_objects
             calls == FinalizerCalls(h, is_persistent, p_free)
         IN /\ persistent_objects' = persistent_objects \ {p}
            /\ objects_index' = Remove(objects_index, p)
            /\ internal_field' = IF ~p_free THEN [internal_field EXCEPT ![h.ref_] = NullPtr]
                                 ELSE internal_field
            /\ objects' = Remove(objects, id)
            /\ fin_stack' = fin_stack \o calls
            /\ last' = Call(op, p, FALSE, "void",
                            <<"objects_index_.erase">>
                              \o (IF ~p_free THEN <<"clear_internal_field">> ELSE <<>>)
                              \o <<"ref_.Reset", "objects_.remove_at">>
                              \o (IF calls # <<>> THEN <<"finalizer">> ELSE <<>>),
                            Len(calls))
            /\ UNCHANGED fault
\* --------------------------------------------------------- unbind_pointer
\* unbind_pointer(p_pointer), called under the name `op` of its entry point
DoUnbind(op, p) ==
    IF HasIndex(p)
    THEN FreeObject(op, p, FALSE)
    ELSE /\ last' = Call(op, p, FALSE, "void", <<>>, 0)
         /\ UNCHANGED <<objects, objects_index, persistent_objects, internal_field,
                        fin_stack, fault>>

UnbindPointer(p) ==
    /\ CanCall
    /\ DoUnbind("unbind_pointer", p)
    /\ UNCHANGED <<native_classes, all_runtimes, isolate_, dtor_pc>>
    /\ UNCHANGED <<torn_down, regvars, modvars, funvars, delvars>>

\* ----------------------------------------------------- object_gc_callback
\* the collector may reclaim the script object of a handle whose reference is weak
Collectible(id) == objects[id].weak

ObjectGCCallback(id) ==
    /\ fault = "none"
    /\ dtor_pc = "alive"
    /\ isolate_ = "alive"
    /\ fin_stack = <<>>
    /\ id \in DOMAIN objects
    /\ Collectible(id)
    /\ FreeObject("object_gc_callback", objects[id].pointer, TRUE)
    /\ UNCHANGED <<native_classes, all_runtimes, isolate_, dtor_pc>>
    /\ UNCHANGED <<torn_down, regvars, modvars, funvars, delvars>>

\* the innermost running finalizer returns to the free_object that called it
FinalizerReturn ==
    /\ fault = "none"
    /\ fin_stack # <<>>
    /\ fin_stack' = SubSeq(fin_stack, 1, Len(fin_stack) - 1)
    /\ UNCHANGED <<objects, objects_index, persistent_objects, native_classes, internal_field,
                   all_runtimes, isolate_, dtor_pc, fault, last>>
    /\ UNCHANGED <<torn_down, regvars, modvars, funvars, delvars>>

\* ----------------------------------- EnvironmentStore / InstanceBindingCallbacks
\* EnvironmentStore::access(p_runtime) returns a non-empty pointer
Access == all_runtimes

\* the engine calls the binding callbacks of an object on the owning thread whenever
\* it is not inside the destructor itself, also after the bridge is gone
CanCallback == fault = "none" /\ (dtor_pc \in {"alive", "done"} \/ fin_stack # <<>>)

FreeCallback(p) ==
    /\ CanCallback
    /\ IF Access
       THEN DoUnbind("unbind_pointer", p)
       ELSE /\ last' = Call("free_callback", p, FALSE, "void", <<>>, 0)
            /\ UNCHANGED <<objects, objects_index, persistent_objects, internal_field,
                           fin_stack, fault>>
    /\ UNCHANGED <<native_classes, all_runtimes, isolate_, dtor_pc>>
    /\ UNCHANGED <<torn_down, regvars, modvars, funvars, delvars>>

ReferenceCallback(p, p_reference) ==
    /\ CanCallback
    /\ Access => MayReference(p, p_reference)
    /\ IF Access
       THEN DoReference("reference_object", p, p_reference)
       ELSE /\ last' = Call("reference_callback", p, p_reference, "true", <<>>, 0)
            /\ UNCHANGED <<objects, fault>>
    /\ UNCHANGED <<objects_index, persistent_objects, native_classes, internal_field,
                   all_runtimes, isolate_, dtor_pc, fin_stack>>
    /\ UNCHANGED <<torn_down, regvars, modvars, funvars, delvars>>

\* ------------------------------------- bind_valuetype and the deferred deletions
\* the types whose destructor may release reference-based objects
Composite == {"CALLABLE", "ARRAY", "DICTIONARY"}

\* dealloc_variant(variant) executed by thread t
Freed(var, t) == [var EXCEPT !.state = "freed", !.freed_by = t]

\* the variants that wait in pending_delete_
Queued == {pending_delete[i] : i \in DOMAIN pending_delete}

\* exec_sync_delete: every queued variant is read and freed, by the owning thread
ExecSyncDelete ==
    /\ variants' = [v \in Variants |->
                       IF v \in Queued THEN Freed(variants[v], OwnerThread) ELSE variants[v]]
    /\ pending_delete' = <<>>

\* bind_valuetype: the Variant becomes the backing store of an ArrayBuffer kept by
\* the script object
BindValuetype(v, type) ==
    /\ fault = "none"
    /\ dtor_pc = "alive"
    /\ variants[v].state = "unbound"
    /\ variants' = [variants EXCEPT ![v] = [type |-> type, state |-> "bound",
                                            freed_by |-> "none"]]
    /\ UNCHANGED <<objvars, fault, regvars, modvars, funvars, pending_delete>>

\* update(): the owning thread drains the queue when there is data left
Update ==
    /\ fault = "none"
    /\ dtor_pc = "alive"
    /\ fin_stack = <<>>
    /\ pending_delete # <<>>
    /\ ExecSyncDelete
    /\ UNCHANGED <<objvars, fault, regvars, modvars, funvars>>

\* ----------------------------------------------------------- ~Environment
\* a destructor that flushes the bound objects before it leaves the registry
DtorOrder_FlushBeforeRemove ==
    <<"function_cache", "context", "module_cache", "script_classes", "symbols", "debugger",
      "check_objects", "flush", "store_remove", "timers", "module_resolvers", "module_loaders",
      "string_name_cache", "native_classes", "isolate", "sync_delete">>

\* a destructor that drops the module cache before it clears the function cache
DtorOrder_ModuleCacheFirst ==
    <<"module_cache", "function_cache", "context", "script_classes", "symbols", "debugger",
      "store_remove", "timers", "module_resolvers", "module_loaders",
      "check_objects", "flush", "string_name_cache", "native_classes", "isolate",
      "sync_delete">>

\* a destructor that clears the native class table before it flushes the bound objects
DtorOrder_ClassesBeforeFlush ==
    <<"function_cache", "context", "module_cache", "script_classes", "symbols", "debugger",
      "store_remove", "timers", "module_resolvers", "module_loaders",
      "native_classes", "check_objects", "flush", "string_name_cache", "isolate",
      "sync_delete">>

\* the steps of the destructor in program order
DtorOrder ==
    <<"function_cache", "context", "module_cache", "script_classes", "symbols", "debugger",
      "store_remove", "timers", "module_resolvers", "module_loaders",
      "check_objects", "flush", "string_name_cache", "native_classes", "isolate",
      "sync_delete">>

\* the steps that change nothing of the state modelled here
PlainSteps ==
    {"context", "module_cache", "script_classes", "symbols", "debugger",
     "timers", "module_resolvers", "module_loaders", "string_name_cache"}

\* the step that follows `pc` in the destructor
NextDtorPc(pc) ==
    LET i == CHOOSE k \in 1..Len(DtorOrder) : DtorOrder[k] = pc
    IN IF i = Len(DtorOrder) THEN "done" ELSE DtorOrder[i + 1]

\* the step completes: the destructor moves on to the next one
DtorAdvance ==
    /\ dtor_pc' = NextDtorPc(dtor_pc)
    /\ torn_down' = torn_down \cup {dtor_pc}

\* the threads whose callback holds a std::shared_ptr obtained from the registry
Holders == {t \in Threads : cb[t].rval = "shared"}

\* the owner drops its shared_ptr to the bridge (on the owning thread, outside of
\* any callback); when it was the last one the destructor is entered
DtorEnter ==
    /\ fault = "none"
    /\ dtor_pc = "alive"
    /\ fin_stack = <<>>
    /\ owner_ref
    /\ cb[OwnerThread].pc = "idle"
    /\ owner_ref' = FALSE
    /\ IF Holders = {}
       THEN /\ dtor_pc' = DtorOrder[1]
            /\ last' = Call("~Environment", NullPtr, FALSE, "void", <<>>, 0)
       ELSE UNCHANGED <<dtor_pc, last>>
    /\ UNCHANGED <<objects, objects_index, persistent_objects, native_classes, internal_field,
                   all_runtimes, isolate_, fin_stack, fault, torn_down, lock_, cb, modvars, funvars, delvars>>

DtorPlainStep ==
    /\ fault = "none"
    /\ dtor_pc \in PlainSteps
    /\ DtorAdvance
    /\ last' = Call(dtor_pc, NullPtr, FALSE, "void", <<>>, 0)
    /\ UNCHANGED <<objects, objects_index, persistent_objects, native_classes, internal_field,
                   all_runtimes, isolate_, fin_stack, fault, regvars, modvars, funvars, delvars>>

\* function_bank_.clear(); function_refs_.clear()
DtorFunctionCache ==
    /\ fault = "none"
    /\ dtor_pc = "function_cache"
    /\ function_bank' = <<>>
    /\ function_refs' = <<>>
    /\ flast' = [op |-> "~Environment", func |-> "none", id |-> 0, ret |-> "void"]
    /\ DtorAdvance
    /\ last' = Call(dtor_pc, NullPtr, FALSE, "void", <<>>, 0)
    /\ UNCHANGED <<objects, objects_index, persistent_objects, native_classes, internal_field,
                   all_runtimes, isolate_, fin_stack, fault, regvars, modvars, delvars,
                   function_ids>>

\* EnvironmentStore::get_shared().remove(this): lock, check, erase, unlock; the
\* lock is taken once no other thread holds it
DtorStoreRemove ==
    /\ fault = "none"
    /\ dtor_pc = "store_remove"
    /\ lock_ = "none"
    /\ last' = Call("store_remove", NullPtr, FALSE, "void", <<>>, 0)
    /\ IF all_runtimes
       THEN /\ all_runtimes' = FALSE
            /\ DtorAdvance
            /\ UNCHANGED fault
       ELSE /\ fault' = "all_runtimes_.has(p_runtime)"
            /\ UNCHANGED <<all_runtimes, dtor_pc, torn_down>>
    /\ UNCHANGED <<objects, objects_index, persistent_objects, native_classes, internal_field,
                   isolate_, fin_stack, regvars, modvars, funvars, delvars>>

\* jsb_check((uint32_t) objects_.size() == objects_index_.size())
DtorCheckObjects ==
    /\ fault = "none"
    /\ dtor_pc = "check_objects"
    /\ last' = Call("check_objects", NullPtr, FALSE, "void", <<>>, 0)
    /\ IF Cardinality(DOMAIN objects) = Cardinality(DOMAIN objects_index)
       THEN DtorAdvance /\ UNCHANGED fault
       ELSE fault' = "objects_.size() == objects_index_.size()" /\ UNCHANGED <<dtor_pc, torn_down>>
    /\ UNCHANGED <<objects, objects_index, persistent_objects, native_classes, internal_field,
                   all_runtimes, isolate_, fin_stack, regvars, modvars, funvars, delvars>>

\* a flush loop that passes p_free = false
FlushFree_False == FALSE

\* the flag the flush loop passes to free_object as p_free
FlushFree == TRUE

\* one iteration of `while (!objects_index_.is_empty())`: the key the hash map yields
\* first is any of its keys
DtorFlushObject(p) ==
    /\ fault = "none"
    /\ dtor_pc = "flush"
    /\ fin_stack = <<>>
    /\ HasIndex(p)
    /\ FreeObject("flush", p, FlushFree)
    /\ UNCHANGED <<native_classes, all_runtimes, isolate_, dtor_pc>>
    /\ UNCHANGED <<torn_down, regvars, modvars, funvars, delvars>>

\* the loop ends: jsb_check(objects_.size() == 0)
DtorFlushEnd ==
    /\ fault = "none"
    /\ dtor_pc = "flush"
    /\ fin_stack = <<>>
    /\ DOMAIN objects_index = {}
    /\ last' = Call("flush_end", NullPtr, FALSE, "void", <<>>, 0)
    /\ IF DOMAIN objects = {}
       THEN DtorAdvance /\ UNCHANGED fault
       ELSE fault' = "objects_.size() == 0" /\ UNCHANGED <<dtor_pc, torn_down>>
    /\ UNCHANGED <<objects, objects_index, persistent_objects, native_classes, internal_field,
                   all_runtimes, isolate_, fin_stack, regvars, modvars, funvars, delvars>>

\* native_classes_.clear()
DtorClearClasses ==
    /\ fault = "none"
    /\ dtor_pc = "native_classes"
    /\ native_classes' = <<>>
    /\ DtorAdvance
    /\ last' = Call("native_classes", NullPtr, FALSE, "void", <<>>, 0)
    /\ UNCHANGED <<objects, objects_index, persistent_objects, internal_field,
                   all_runtimes, isolate_, fin_stack, fault, regvars, modvars, funvars, delvars>>

\* isolate_->Dispose()
DtorDisposeIsolate ==
    /\ fault = "none"
    /\ dtor_pc = "isolate"
    /\ isolate_' = "disposed"
    /\ DtorAdvance
    /\ last' = Call("isolate", NullPtr, FALSE, "void", <<>>, 0)
    /\ variants' = [v \in Variants |->
                       IF variants[v].state = "bound" THEN Freed(variants[v], OwnerThread)
                       ELSE variants[v]]
    /\ UNCHANGED <<objects, objects_index, persistent_objects, native_classes, internal_field,
                   all_runtimes, fin_stack, fault, regvars, modvars, funvars, pending_delete>>

\* exec_sync_delete(), the last statement of the destructor
DtorSyncDelete ==
    /\ fault = "none"
    /\ dtor_pc = "sync_delete"
    /\ ExecSyncDelete
    /\ DtorAdvance
    /\ last' = Call("sync_delete", NullPtr, FALSE, "void", <<>>, 0)
    /\ UNCHANGED <<objects, objects_index, persistent_objects, native_classes, internal_field,
                   all_runtimes, isolate_, fin_stack, fault, regvars, modvars, funvars>>

\* ------------------------------- the binding callbacks, statement by statement
\* free_callback, reference_callback(p_reference = true / false)
CallbackKinds == {"free", "reference_inc", "reference_dec"}

\* the use count of the std::shared_ptr control block of the bridge
UseCount == (IF owner_ref THEN 1 ELSE 0) + Cardinality(Holders)

\* a shared_from_this that hands out an owner of an expired object
SharedFromThis_Unchecked == "shared"

\* env->shared_from_this(): one more owner while there is one; std::bad_weak_ptr
\* once the use count has dropped to zero (the destructor is running or has run)
SharedFromThis == IF UseCount > 0 THEN "shared" ELSE "bad_weak_ptr"

\* a lookup that returns the raw pointer, as internal_access does
AccessResult_Raw == IF all_runtimes THEN "raw" ELSE "empty"

\* the body of EnvironmentStore::access between lock and unlock
AccessResult == IF all_runtimes THEN SharedFromThis ELSE "empty"

\* jsb_check(Thread::get_caller_id() == thread_id_)
ThreadFault == "Thread::get_caller_id() == thread_id_"

\* the engine invokes a binding callback on thread t: access() takes lock_.
\* The owning thread is not inside the destructor or a finalizer at that time.
CbBegin(t, kind, p) ==
    /\ fault = "none"
    /\ cb[t].pc = "idle"
    /\ t = OwnerThread => /\ dtor_pc \in {"alive", "done"}
                          /\ fin_stack = <<>>
                          /\ kind # "free" => MayReference(p, kind = "reference_inc")
    /\ lock_ = "none"
    /\ lock_' = t
    /\ cb' = [cb EXCEPT ![t] = [pc |-> "locked", kind |-> kind, ptr |-> p, rval |-> "empty"]]
    /\ UNCHANGED <<objvars, fault, owner_ref, modvars, funvars, delvars>>

\* all_runtimes_.has(p_runtime) and shared_from_this(), under the lock; an exception
\* leaves access() without unlocking and ends the process
CbLookup(t) ==
    /\ fault = "none"
    /\ cb[t].pc = "locked"
    /\ IF AccessResult = "bad_weak_ptr"
       THEN /\ fault' = "bad_weak_ptr"
            /\ cb' = [cb EXCEPT ![t].pc = "thrown"]
       ELSE /\ cb' = [cb EXCEPT ![t].pc = "looked", ![t].rval = AccessResult]
            /\ UNCHANGED fault
    /\ UNCHANGED <<objvars, lock_, owner_ref, modvars, funvars, delvars>>

\* lock_.unlock(); return rval
CbUnlock(t) ==
    /\ fault = "none"
    /\ cb[t].pc = "looked"
    /\ lock_' = "none"
    /\ cb' = [cb EXCEPT ![t].pc = "returned"]
    /\ UNCHANGED <<objvars, fault, owner_ref, modvars, funvars, delvars>>

\* the rest of the callback: with a handle it calls unbind_pointer / reference_object,
\* which assert the owning thread first; without one it returns (true). The handle
\* is dropped on return; the owner keeps its own while the owning thread is in here.
CbCall(t) ==
    LET c == cb[t]
        inc == c.kind = "reference_inc"
        op == IF c.kind = "free" THEN "unbind_pointer" ELSE "reference_object"
    IN /\ fault = "none"
       /\ c.pc = "returned"
       /\ IF c.rval = "empty"
          THEN /\ last' = [Call(IF c.kind = "free" THEN "free_callback" ELSE "reference_callback",
                                 c.ptr, inc, IF c.kind = "free" THEN "void" ELSE "true", <<>>, 0)
                             EXCEPT !.thread = t]
               /\ cb' = [cb EXCEPT ![t] = IdleCb]
               /\ UNCHANGED <<objects, objects_index, persistent_objects, internal_field,
                              fin_stack, fault>>
          ELSE IF t # OwnerThread
          THEN /\ fault' = ThreadFault
               /\ last' = [Call(op, c.ptr, inc, "void", <<>>, 0) EXCEPT !.thread = t]
               /\ UNCHANGED <<objects, objects_index, persistent_objects, internal_field,
                              fin_stack, cb>>
          ELSE /\ IF c.kind = "free"
                  THEN DoUnbind(op, c.ptr)
                  ELSE /\ DoReference(op, c.ptr, inc)
                       /\ UNCHANGED <<objects_index, persistent_objects, internal_field,
                                      fin_stack>>
               /\ cb' = [cb EXCEPT ![t] = IdleCb]
       /\ UNCHANGED <<native_classes, all_runtimes, isolate_, dtor_pc, torn_down,
                      lock_, owner_ref, modvars, funvars, delvars>>

\* --------------------------- public operations called from another thread
PublicOps == {"bind_pointer", "unbind_pointer", "reference_object", "mark_as_persistent_object"}

\* thread t, not the owner, calls a public operation on the live bridge:
\* bind_pointer (617), unbind_pointer (662) and reference_object (673) assert the
\* thread before anything else; mark_as_persistent_object looks the pointer up in
\* objects_index_ (649) and persistent_objects_ (651) and asserts only inside the
\* reference_object it calls for a bound pointer (653)
ForeignCall(t, op, p) ==
    LET reads == IF op # "mark_as_persistent_object" THEN <<>>
                 ELSE IF ~HasIndex(p) THEN <<"objects_index_.find">>
                 ELSE <<"objects_index_.find", "persistent_objects_.has">>
    IN /\ fault = "none"
       /\ t # OwnerThread
       /\ cb[t].pc = "idle"
       /\ dtor_pc = "alive"
       /\ last' = [Call(op, p, op = "mark_as_persistent_object", "void", reads, 0)
                     EXCEPT !.thread = t]
       /\ fault' = IF op # "mark_as_persistent_object" THEN ThreadFault
                   ELSE IF ~HasIndex(p) THEN "none"
                   ELSE IF p \in persistent_objects THEN "duplicate adding persistent object"
                   ELSE ThreadFault
       /\ UNCHANGED <<objects, objects_index, persistent_objects, native_classes, internal_field,
                      all_runtimes, isolate_, dtor_pc, fin_stack, torn_down, regvars, modvars, funvars, delvars>>

Next ==
    \/ \E c \in ClassInputs, p \in Pointers, o \in JSObjects, policy \in Policies :
            BindPointer(c, p, o, policy)
    \/ \E p \in Pointers, inc \in BOOLEAN : ReferenceObject(p, inc)
    \/ \E p \in Pointers : MarkAsPersistentObject(p)
    \/ \E p \in Pointers : UnbindPointer(p)
    \/ \E id \in ObjectIDs : ObjectGCCallback(id)
    \/ FinalizerReturn
    \/ \E p \in Pointers : FreeCallback(p)
    \/ \E p \in Pointers, inc \in BOOLEAN : ReferenceCallback(p, inc)
    \/ DtorEnter
    \/ DtorPlainStep
    \/ DtorFunctionCache
    \/ DtorStoreRemove
    \/ DtorCheckObjects
    \/ \E p \in Pointers : DtorFlushObject(p)
    \/ DtorFlushEnd
    \/ DtorClearClasses
    \/ DtorDisposeIsolate
    \/ DtorSyncDelete

Spec == Init /\ [][Next]_vars

\* ------------------------------------------------------- the function cache
\* TStrongRef(isolate, p_func): a strong reference counted once
NewStrongRef(f) == [object_ |-> f, ref_count_ |-> 1]

\* TStrongRef::ref
Ref(r) == [r EXCEPT !.ref_count_ = @ + 1]

\* an unref that reports the last reference whatever the count
Unref_FirstRelease(r) == [r |-> [r EXCEPT !.ref_count_ = @ - 1], last |-> TRUE]

\* TStrongRef::unref: the count is lowered; true when it has reached zero
Unref(r) == [r |-> [r EXCEPT !.ref_count_ = @ - 1], last |-> r.ref_count_ = 1]

\* get_cached_function(p_func): the id of the entry of a cached function, whose count
\* is raised; a new entry and its back-link otherwise
GetCachedFunction(f) ==
    /\ fault = "none"
    /\ dtor_pc = "alive"
    /\ IF f \in DOMAIN function_refs
       THEN LET callback_id == function_refs[f]
            IN IF callback_id \notin DOMAIN function_bank
               THEN /\ fault' = "function_bank_.get_value"
                    /\ flast' = [op |-> "get_cached_function", func |-> f, id |-> callback_id,
                                 ret |-> "void"]
                    /\ UNCHANGED <<function_bank, function_refs, function_ids>>
               ELSE /\ function_bank[callback_id].ref_count_ < MaxRef
                    /\ function_bank' = [function_bank EXCEPT ![callback_id] = Ref(@)]
                    /\ flast' = [op |-> "get_cached_function", func |-> f, id |-> callback_id,
                                 ret |-> callback_id]
                    /\ UNCHANGED <<function_refs, function_ids, fault>>
       ELSE LET new_id == function_ids + 1
            IN /\ function_ids < MaxFuncIds
               /\ function_ids' = new_id
               /\ function_bank' = (new_id :> NewStrongRef(f)) @@ function_bank
               /\ function_refs' = (f :> new_id) @@ function_refs
               /\ flast' = [op |-> "get_cached_function", func |-> f, id |-> new_id,
                            ret |-> new_id]
               /\ UNCHANGED fault
    /\ UNCHANGED <<objvars, regvars, modvars, delvars>>

\* release_function(p_func_id): false for an id that is not in the bank; otherwise
\* the count is lowered and, at zero, the back-link and the entry are removed
ReleaseFunction(p_func_id) ==
    /\ fault = "none"
    /\ dtor_pc = "alive"
    /\ IF p_func_id \in DOMAIN function_bank
       THEN LET u == Unref(function_bank[p_func_id])
            IN IF ~u.last
               THEN /\ function_bank' = [function_bank EXCEPT ![p_func_id] = u.r]
                    /\ flast' = [op |-> "release_function", func |-> "none",
                                 id |-> p_func_id, ret |-> "true"]
                    /\ UNCHANGED <<function_refs, fault>>
               ELSE IF u.r.object_ \notin DOMAIN function_refs
               THEN /\ fault' = "r != 0"
                    /\ function_bank' = [function_bank EXCEPT ![p_func_id] = u.r]
                    /\ flast' = [op |-> "release_function", func |-> "none",
                                 id |-> p_func_id, ret |-> "void"]
                    /\ UNCHANGED function_refs
               ELSE /\ function_refs' = Remove(function_refs, u.r.object_)
                    /\ function_bank' = Remove(function_bank, p_func_id)
                    /\ flast' = [op |-> "release_function", func |-> "none",
                                 id |-> p_func_id, ret |-> "true"]
                    /\ UNCHANGED fault
       ELSE /\ flast' = [op |-> "release_function", func |-> "none", id |-> p_func_id,
                         ret |-> "false"]
            /\ UNCHANGED <<function_bank, function_refs, fault>>
    /\ UNCHANGED <<objvars, regvars, modvars, delvars, function_ids>>

\* ---------------------------------------------- the destructor runs to its end
\* a statement of the destructor, or the return of a finalizer
TeardownStep ==
    \/ DtorPlainStep
    \/ DtorFunctionCache
    \/ DtorStoreRemove
    \/ DtorCheckObjects
    \/ \E p \in Pointers : DtorFlushObject(p)
    \/ FinalizerReturn
    \/ DtorFlushEnd
    \/ DtorClearClasses
    \/ DtorDisposeIsolate
    \/ DtorSyncDelete

\* the bridge whose finalizers bind no pointer once the destructor has started
NextTeardown ==
    \/ \E c \in ClassInputs, p \in Pointers, o \in JSObjects, policy \in Policies :
            dtor_pc = "alive" /\ BindPointer(c, p, o, policy)
    \/ \E p \in Pointers, inc \in BOOLEAN : ReferenceObject(p, inc)
    \/ \E p \in Pointers : MarkAsPersistentObject(p)
    \/ \E p \in Pointers : UnbindPointer(p)
    \/ \E id \in ObjectIDs : ObjectGCCallback(id)
    \/ \E p \in Pointers : FreeCallback(p)
    \/ \E p \in Pointers, inc \in BOOLEAN : ReferenceCallback(p, inc)
    \/ DtorEnter
    \/ TeardownStep

\* the destructor is straight-line code on the owning thread and a finalizer returns:
\* the next statement is executed eventually
SpecTeardown == Init /\ [][NextTeardown]_vars /\ WF_vars(TeardownStep)

\* the deleter of the backing store, called by the collector on thread t once the
\* script object is garbage: a composite value is written to pending_delete_ when
\* the registry hands out the bridge and the buffer has room, and is freed in place
\* otherwise; every other value is freed in place. When the lookup throws, the deleter
\* is left with the value handed to it neither queued nor freed
BackingStoreDeleter(t, v) ==
    /\ fault = "none"
    /\ isolate_ = "alive"
    /\ variants[v].state = "bound"
    /\ t = OwnerThread => dtor_pc = "alive" /\ fin_stack = <<>>
    /\ lock_ = "none"
    /\ IF variants[v].type \notin Composite
       THEN /\ variants' = [variants EXCEPT ![v] = Freed(@, t)]
            /\ UNCHANGED <<pending_delete, fault>>
       ELSE IF AccessResult = "bad_weak_ptr"
       THEN /\ fault' = "bad_weak_ptr"
            /\ variants' = [variants EXCEPT ![v].state = "handed"]
            /\ UNCHANGED pending_delete
       ELSE IF AccessResult = "shared" /\ Len(pending_delete) < QueueCapacity
       THEN /\ pending_delete' = Append(pending_delete, v)
            /\ variants' = [variants EXCEPT ![v].state = "queued"]
            /\ UNCHANGED fault
       ELSE /\ variants' = [variants EXCEPT ![v] = Freed(@, t)]
            /\ UNCHANGED <<pending_delete, fault>>
    /\ UNCHANGED <<objvars, regvars, modvars, funvars>>

\* ------------------------------------------------ the bridge and its threads
\* the bridge after bind_pointer(Node, p1, o1, External) on the owning thread
InitThreads ==
    /\ objects = ("h1" :> NewHandle("Node", "p1", "o1", "External"))
    /\ objects_index = ("p1" :> "h1")
    /\ persistent_objects = {}
    /\ native_classes = [c \in {"Node", "Vector2"} |->
                            [type |-> IF c = "Vector2" THEN "GodotPrimitive" ELSE "GodotObject"]]
    /\ internal_field = [o \in JSObjects |-> IF o = "o1" THEN "p1" ELSE NullPtr]
    /\ all_runtimes = TRUE
    /\ isolate_ = "alive"
    /\ dtor_pc = "alive"
    /\ fin_stack = <<>>
    /\ fault = "none"
    /\ last = [op |-> "bind_pointer", ptr |-> "p1", is_inc |-> FALSE, ret |-> "void",
               pre_bound |-> FALSE, pre_ref_count |-> 0, pre_persistent |-> FALSE,
               effects |-> <<>>, finalizer_calls |-> 0, thread |-> OwnerThread]
    /\ torn_down = {}
    /\ RegInit
    /\ ModInit
    /\ DelInit
    /\ FunInit

\* callbacks on either thread and calls from the other thread, while the owning
\* thread may release the bridge and run its destructor
NextThreads ==
    \/ \E t \in Threads, kind \in CallbackKinds, p \in Pointers : CbBegin(t, kind, p)
    \/ \E t \in Threads : CbLookup(t)
    \/ \E t \in Threads : CbUnlock(t)
    \/ \E t \in Threads : CbCall(t)
    \/ \E t \in Threads, op \in PublicOps, p \in Pointers : ForeignCall(t, op, p)
    \/ DtorEnter
    \/ DtorPlainStep
    \/ DtorFunctionCache
    \/ DtorStoreRemove
    \/ DtorCheckObjects
    \/ \E p \in Pointers : DtorFlushObject(p)
    \/ FinalizerReturn
    \/ DtorFlushEnd
    \/ DtorClearClasses
    \/ DtorDisposeIsolate
    \/ DtorSyncDelete

SpecThreads == InitThreads /\ [][NextThreads]_vars

\* the bridge, its collector thread and the values bound by bind_valuetype
NextDelete ==
    \/ \E v \in Variants, type \in VariantTypes : BindValuetype(v, type)
    \/ \E t \in Threads, v \in Variants : BackingStoreDeleter(t, v)
    \/ Update
    \/ DtorEnter
    \/ DtorPlainStep
    \/ DtorFunctionCache
    \/ DtorStoreRemove
    \/ DtorCheckObjects
    \/ \E p \in Pointers : DtorFlushObject(p)
    \/ FinalizerReturn
    \/ DtorFlushEnd
    \/ DtorClearClasses
    \/ DtorDisposeIsolate
    \/ DtorSyncDelete

SpecDelete == InitThreads /\ [][NextDelete]_vars

\* functions are retained and released until the owner drops the bridge
NextFunctions ==
    \/ \E f \in Functions : GetCachedFunction(f)
    \/ \E id \in 1..MaxFuncIds : ReleaseFunction(id)
    \/ DtorEnter
    \/ TeardownStep

SpecFunctions == InitThreads /\ [][NextFunctions]_vars

\* ================================================================ modules
\* ------------------------------------------------------------- PathUtil
\* PathUtil::dirname: the path without its last segment
Dirname(path) == IF path = <<>> THEN <<>> ELSE SubSeq(path, 1, Len(path) - 1)

\* PathUtil::combine
Combine(a, b) == a \o b

\* PathUtil::extract: "." segments are dropped, ".." removes the segment before it
\* and fails when there is none
RECURSIVE ExtractFrom(_, _)
ExtractFrom(rest, acc) ==
    IF rest = <<>> THEN [ok |-> TRUE, path |-> acc]
    ELSE IF Head(rest) = "." THEN ExtractFrom(Tail(rest), acc)
    ELSE IF Head(rest) = ".."
    THEN IF acc = <<>> THEN [ok |-> FALSE, path |-> <<>>]
         ELSE ExtractFrom(Tail(rest), SubSeq(acc, 1, Len(acc) - 1))
    ELSE ExtractFrom(Tail(rest), Append(acc, Head(rest)))

Extract(path) == ExtractFrom(path, <<>>)

\* PathUtil::is_absolute_path
IsAbsolutePath(path) == path # <<>> /\ path[1] = Root

\* file names with the script extension appended
JsName == ("b" :> "b.js") @@ ("c" :> "c.js") @@ ("d" :> "d.js") @@ ("godot" :> "godot.js") @@
          ("pkg" :> "pkg.js") @@ ("bad" :> "bad.js") @@ ("nomain" :> "nomain.js") @@
          ("index" :> "index.js")

\* PathUtil::extends_with(path, ".js"): the extension is appended when missing
ExtendsWith(path) ==
    IF path # <<>> /\ path[Len(path)] \in DOMAIN JsName
    THEN [path EXCEPT ![Len(path)] = JsName[@]]
    ELSE path

\* ------------------------------------------------ loaders and resolvers
\* module_loaders_: the namespace modules registered by the constructor
ModuleLoaders == {<<"godot">>, <<"godot-jsb">>}

\* module_resolvers_ in registration order, each with its search paths
ModuleResolvers == <<[search_paths |-> << <<Root>> >>],
                     [search_paths |-> << <<Root, "lib">> >>]>>

\* find_module_loader: a hash lookup with the identifier as given
FindModuleLoader(id) == id \in ModuleLoaders

\* check_file_path, second block: the descriptor at path/package.json is parsed and
\* its "main" entry, with the extension appended, combined with path and extracted;
\* the file found, <<>> if any of this fails
PackageMain(path) ==
    LET package_filepath == Combine(path, <<"package.json">>)
    IN IF package_filepath \notin DOMAIN PackageFiles THEN <<>>
       ELSE IF ~PackageFiles[package_filepath].parsed THEN <<>>
       ELSE LET main == Extract(Combine(path, ExtendsWith(PackageFiles[package_filepath].main)))
            IN IF main.ok /\ main.path \in SourceFiles THEN main.path ELSE <<>>

\* a check that prefers the package descriptor to the direct file
CheckFilePath_PackageFirst(path) ==
    IF PackageMain(path) # <<>> THEN PackageMain(path)
    ELSE IF ExtendsWith(path) \in SourceFiles THEN ExtendsWith(path) ELSE <<>>

\* DefaultModuleResolver::check_file_path: the direct file, else the main file of
\* the package; the path found, <<>> if none
CheckFilePath(path) ==
    IF ExtendsWith(path) \in SourceFiles THEN ExtendsWith(path) ELSE PackageMain(path)

\* DefaultModuleResolver::get_source_info of resolver r: the source path, <<>> if none
GetSourceInfo(r, id) ==
    IF IsAbsolutePath(id) THEN CheckFilePath(id)
    ELSE LET sp == ModuleResolvers[r].search_paths
             hits == {i \in 1..Len(sp) : CheckFilePath(Combine(sp[i], id)) # <<>>}
         IN IF hits = {} THEN <<>>
            ELSE CheckFilePath(Combine(sp[CHOOSE i \in hits : \A j \in hits : i <= j], id))

\* a lookup that prefers the resolver registered last
FindModuleResolver_LastMatch(id) ==
    LET hits == {r \in 1..Len(ModuleResolvers) : GetSourceInfo(r, id) # <<>>}
    IN IF hits = {} THEN 0 ELSE CHOOSE r \in hits : \A q \in hits : q <= r

\* find_module_resolver: the first resolver, in registration order, whose
\* get_source_info succeeds; 0 if none does
FindModuleResolver(id) ==
    LET hits == {r \in 1..Len(ModuleResolvers) : GetSourceInfo(r, id) # <<>>}
    IN IF hits = {} THEN 0 ELSE CHOOSE r \in hits : \A q \in hits : r <= q

\* the resolvers find_module_resolver has called get_source_info on, in order, when
\* it returns resolver r (0: none)
Consulted(r) ==
    [i \in 1..(IF r = 0 THEN Len(ModuleResolvers) ELSE r) |-> i]

\* ------------------------------------------------------- module records
\* script values: an empty handle, the object allocated for the exports of a new
\* module, and the value the n-th run of a body assigned to module.exports
NoValue == [kind |-> "empty", by |-> 0]
ExportsObj == [kind |-> "object", by |-> 0]
Replacement(n) == [kind |-> "replaced", by |-> n]

\* JavaScriptModuleCache::insert: a new record with a new module object (numbered
\* per identifier); `exports` is the handle of the record, `module_exports` the
\* "exports" property of the module object
NewModule(id) ==
    [id |-> id, obj |-> IF id \in DOMAIN module_cache THEN module_cache[id].obj + 1 ELSE 1,
     path |-> <<>>,
     loaded |-> FALSE, reload_requested |-> FALSE, exports |-> NoValue,
     module_exports |-> NoValue, hash |-> 0, children |-> <<>>, default_class_id |-> 0]

\* JavaScriptModule::is_loaded: loaded, and no reload has been requested
IsLoaded(m) == m.loaded /\ ~m.reload_requested

\* JavaScriptModule::on_load
OnLoad(m) == [m EXCEPT !.loaded = TRUE]

\* ScriptClassInfo::_parse_script_class: a module whose exports define a script
\* class is attached to that class
ParseScriptClass(m) ==
    IF m.path \in ScriptFiles THEN [m EXCEPT !.default_class_id = 1] ELSE m

\* a cache that never reports a hit
CacheHit_Never(id) == FALSE

\* `existing_module && existing_module->is_loaded()` for the record cached under id
CacheHit(id) == id \in DOMAIN module_cache /\ IsLoaded(module_cache[id])

\* relative identifiers combined with the requesting module itself, not its directory
NormalizedId_NoDirname(parent, id) ==
    IF id[1] \in {".", ".."} /\ Len(id) > 1
    THEN LET e == Extract(Combine(parent, id))
         IN [ok |-> e.ok /\ e.path # <<>>, id |-> e.path]
    ELSE [ok |-> TRUE, id |-> id]

\* the identifier handed to the resolvers: one that begins with "./" or "../" is
\* combined with the directory of the requesting module and extracted
NormalizedId(parent, id) ==
    IF id[1] \in {".", ".."} /\ Len(id) > 1
    THEN LET e == Extract(Combine(Dirname(parent), id))
         IN [ok |-> e.ok /\ e.path # <<>>, id |-> e.path]
    ELSE [ok |-> TRUE, id |-> id]

\* the module after its body has returned: the body may have assigned module.exports
AfterBody(m, path, outcome) ==
    IF outcome = "replace"
    THEN [m EXCEPT !.module_exports = Replacement(exec_count[path] + 1)]
    ELSE m

\* a load that keeps the exports object it passed to the body
Execute_KeepArgument(m, path, outcome) ==
    IF outcome = "unreadable"
    THEN [ok |-> FALSE, m |-> m, ran |-> 0, error |-> "failed to read module source",
          replaced |-> FALSE]
    ELSE IF outcome = "throw"
    THEN [ok |-> FALSE, m |-> [m EXCEPT !.hash = files[path]], ran |-> 1,
          error |-> "exception", replaced |-> FALSE]
    ELSE [ok |-> TRUE,
          m |-> [AfterBody(m, path, outcome) EXCEPT !.hash = files[path]],
          ran |-> 1, error |-> "none", replaced |-> outcome = "replace"]

\* DefaultModuleResolver::load and load_from_source on record m: a file that cannot
\* be read is not run; otherwise the fingerprint is taken, the body is run, and
\* when it returns the exports are read back from the module object
Execute(m, path, outcome) ==
    IF outcome = "unreadable"
    THEN [ok |-> FALSE, m |-> m, ran |-> 0, error |-> "failed to read module source",
          replaced |-> FALSE]
    ELSE IF outcome = "throw"
    THEN [ok |-> FALSE, m |-> [m EXCEPT !.hash = files[path]], ran |-> 1,
          error |-> "exception", replaced |-> FALSE]
    ELSE [ok |-> TRUE,
          m |-> [AfterBody(m, path, outcome) EXCEPT
                    !.hash = files[path],
                    !.exports = AfterBody(m, path, outcome).module_exports],
          ran |-> 1, error |-> "none", replaced |-> outcome = "replace"]

\* a reload that leaves the request pending
ReloadExisting_KeepRequest(m, path, outcome) ==
    Execute(m, path, outcome)

\* the branch for a record that exists and is not loaded: the request is cleared
\* and the source loaded into the same record
ReloadExisting(m, path, outcome) ==
    Execute([m EXCEPT !.reload_requested = FALSE], path, outcome)

\* a first load that marks the record loaded whether or not its body failed
LoadNew_MarksLoaded(parent, path, outcome) ==
    LET e == Execute([NewModule(path) EXCEPT !.path = path, !.exports = ExportsObj,
                                             !.module_exports = ExportsObj],
                     path, outcome)
        inserted == (path :> e.m) @@ module_cache
    IN [cache |-> [inserted EXCEPT ![path] = OnLoad(@)], e |-> e]

\* the cache after a first load of `path` required by `parent`: the record is
\* inserted, its path set, the source loaded; on success it is appended to the
\* children of a cached parent and marked loaded
LoadNew(parent, path, outcome) ==
    LET e == Execute([NewModule(path) EXCEPT !.path = path, !.exports = ExportsObj,
                                             !.module_exports = ExportsObj],
                     path, outcome)
        inserted == (path :> e.m) @@ module_cache
    IN IF ~e.ok THEN [cache |-> inserted, e |-> e]
       ELSE LET linked == IF parent # <<>> /\ parent \in DOMAIN module_cache
                          THEN [inserted EXCEPT ![parent].children = Append(@, path)]
                          ELSE inserted
            IN [cache |-> [linked EXCEPT ![path] = ParseScriptClass(OnLoad(@))], e |-> e]

\* a failed resolution that leaves a record for the identifier behind
UnknownModule_Inserts(id) == (id :> NewModule(id)) @@ module_cache

\* the cache when no loader and no resolver knows the identifier: "unknown module"
\* is thrown and nullptr returned
UnknownModule(id) == module_cache

\* ----------------------------------------------------------- _load_module
\* the outcome of _load_module(p_parent_id, p_module_id), where `outcome` is what
\* reading and running the source (or the namespace loader) comes to
\* what _load_module has done when it has done nothing yet
NoResult ==
    [cache |-> module_cache, ret |-> <<>>, error |-> "none", fault |-> "none",
     loader |-> FALSE, handed |-> <<>>, consulted |-> <<>>, ran |-> 0, path |-> <<>>,
     replaced |-> FALSE]

\* _load_module from `check again with the resolved module_id` (910) on, for the
\* source path the resolver reported
LoadResolved(found, parent, path, outcome) ==
    IF CacheHit(path) THEN [found EXCEPT !.ret = path, !.path = path]
    ELSE IF path \in DOMAIN module_cache
    THEN LET e == ReloadExisting(module_cache[path], path, outcome)
         IN [found EXCEPT !.cache = [module_cache EXCEPT
                                         ![path] = IF e.ok THEN ParseScriptClass(e.m) ELSE e.m],
                          !.ret = IF e.ok THEN path ELSE <<>>, !.path = path,
                          !.error = e.error, !.ran = e.ran, !.replaced = e.replaced]
    ELSE LET n == LoadNew(parent, path, outcome)
         IN [found EXCEPT !.cache = n.cache,
                          !.ret = IF n.e.ok THEN path ELSE <<>>, !.path = path,
                          !.error = n.e.error, !.ran = n.e.ran, !.replaced = n.e.replaced]

\* _load_module from find_module_resolver (906) on, for the identifier handed to
\* the resolvers and the resolver r found (0 if none)
LoadHanded(parent, handed, r, outcome) ==
    IF r = 0
    THEN [NoResult EXCEPT !.handed = handed, !.consulted = Consulted(r),
                          !.cache = UnknownModule(handed), !.error = "unknown module"]
    ELSE LoadResolved([NoResult EXCEPT !.handed = handed, !.consulted = Consulted(r)],
                      parent, GetSourceInfo(r, handed), outcome)

\* _load_module from the normalized identifier (893) on
LoadNormalized(parent, norm, outcome) ==
    IF ~norm.ok THEN [NoResult EXCEPT !.error = "bad path"]
    ELSE LoadHanded(parent, norm.id, FindModuleResolver(norm.id), outcome)

LoadResult(parent, id, outcome) ==
    IF CacheHit(id) THEN [NoResult EXCEPT !.ret = id]
    ELSE IF FindModuleLoader(id)
    THEN IF id \in DOMAIN module_cache
         THEN [NoResult EXCEPT !.loader = TRUE,
                               !.fault = "module loader does not support reloading"]
         ELSE IF outcome = "ok"
         THEN [NoResult EXCEPT !.loader = TRUE, !.ret = id,
                               !.cache = (id :> OnLoad(NewModule(id))) @@ module_cache]
         ELSE [NoResult EXCEPT !.loader = TRUE, !.error = "exception",
                               !.cache = (id :> NewModule(id)) @@ module_cache]
    ELSE LoadNormalized(parent, NormalizedId(parent, id), outcome)

\* a load that reports success whatever _load_module returned
LoadCode_AlwaysOK(ret) == "OK"

\* Environment::load: OK when _load_module returned a record
LoadCode(ret) == IF ret # <<>> THEN "OK" ELSE "ERR_COMPILATION_FAILED"

\* the number of module bodies run so far
RECURSIVE SumOver(_, _)
SumOver(f, S) ==
    IF S = {} THEN 0 ELSE LET x == CHOOSE y \in S : TRUE IN f[x] + SumOver(f, S \ {x})

TotalExec == SumOver(exec_count, SourceFiles)

\* the modules whose body has been run: their require function can be called
Requirers == {k \in DOMAIN module_cache : k \in SourceFiles /\ exec_count[k] > 0}

\* _load_module, called by load (empty parent) or by the require function of a module
LoadModule(parent, id, outcome) ==
    /\ fault = "none"
    /\ dtor_pc = "alive"
    /\ scan.pc = "idle"
    /\ parent \in (Requirers \cap ParentIds) \cup {<<>>}
    /\ \E res \in {LoadResult(parent, id, outcome)} :
          /\ res.ran = 1 => TotalExec < MaxExec
          /\ res.ran = 0 /\ ~res.loader => outcome = "ok"
          /\ res.loader => outcome \in {"ok", "throw"}
          /\ ~res.loader /\ outcome # "ok" => res.path \in UnstableFiles
          /\ module_cache' = res.cache
          /\ exec_count' = IF res.ran = 1 THEN [exec_count EXCEPT ![res.path] = @ + 1]
                            ELSE exec_count
          /\ fault' = res.fault
          /\ mlast' = [op |-> "_load_module", id |-> id, parent |-> parent, ret |-> res.ret,
                       error |-> res.error, loader |-> res.loader, handed |-> res.handed,
                       consulted |-> res.consulted, path |-> res.path, ran |-> res.ran,
                       replaced |-> res.replaced,
                       code |-> IF parent = <<>> /\ res.fault = "none"
                                THEN LoadCode(res.ret) ELSE "none"]
    /\ UNCHANGED <<objvars, regvars, delvars, funvars, files, scan, slast>>

\* ------------------------------------------------------ mark_as_reloading
\* JavaScriptModule::mark_as_reloading: the module is flagged when the fingerprint
\* of its file differs from the one taken at its last load
ModuleMarkAsReloading(m) ==
    IF files[m.path] # m.hash THEN [m EXCEPT !.reload_requested = TRUE] ELSE m

\* a marking that also discards what the module exported
MarkResult_DropExports(m) ==
    IF ~IsLoaded(m) THEN [ret |-> "Requested", m |-> m]
    ELSE [ret |-> "Requested", m |-> [m EXCEPT !.reload_requested = TRUE, !.exports = NoValue]]

\* Environment::mark_as_reloading for a cached module with a source path
MarkResult(m) ==
    IF ~IsLoaded(m) THEN [ret |-> "Requested", m |-> m]
    ELSE IF ModuleMarkAsReloading(m).reload_requested
    THEN [ret |-> "Requested", m |-> ModuleMarkAsReloading(m)]
    ELSE [ret |-> "NoChanges", m |-> m]

MarkAsReloading(id) ==
    /\ fault = "none"
    /\ dtor_pc = "alive"
    /\ scan.pc = "idle"
    /\ IF id \notin DOMAIN module_cache
       THEN /\ mlast' = [mlast EXCEPT !.op = "mark_as_reloading", !.id = id, !.parent = <<>>,
                                       !.ret = "NoSuchModule", !.error = "none",
                                       !.loader = FALSE, !.handed = <<>>,
                                       !.consulted = <<>>, !.path = <<>>,
                                       !.ran = 0, !.replaced = FALSE, !.code = "none"]
            /\ UNCHANGED <<module_cache, fault>>
       ELSE IF module_cache[id].path = <<>>
       THEN /\ fault' = "!module->path.is_empty()"
            /\ mlast' = [mlast EXCEPT !.op = "mark_as_reloading", !.id = id, !.parent = <<>>,
                                       !.ret = "void", !.error = "none",
                                       !.loader = FALSE, !.handed = <<>>,
                                       !.consulted = <<>>, !.path = <<>>,
                                       !.ran = 0, !.replaced = FALSE, !.code = "none"]
            /\ UNCHANGED module_cache
       ELSE /\ module_cache' = [module_cache EXCEPT ![id] = MarkResult(@).m]
            /\ mlast' = [mlast EXCEPT !.op = "mark_as_reloading", !.id = id, !.parent = <<>>,
                                       !.ret = MarkResult(module_cache[id]).ret,
                                       !.error = "none", !.loader = FALSE, !.handed = <<>>,
                                       !.consulted = <<>>, !.path = <<>>,
                                       !.ran = 0, !.replaced = FALSE, !.code = "none"]
            /\ UNCHANGED fault
    /\ UNCHANGED <<objvars, regvars, delvars, funvars, exec_count, files, scan, slast>>

\* a cached source file is changed on disk
FileEdit(f) ==
    /\ fault = "none"
    /\ dtor_pc = "alive"
    /\ f \in DOMAIN module_cache
    /\ f \in SourceFiles
    /\ files[f] < MaxVersion
    /\ files' = [files EXCEPT ![f] = @ + 1]
    /\ UNCHANGED <<objvars, fault, regvars, delvars, funvars, module_cache, exec_count, mlast,
                   scan, slast>>

\* ------------------------------------------------- scan_external_changes
\* a scan that does not skip the modules attached to a script class
ScanSkips_Never(m) == FALSE

\* `if (module->default_class_id) continue;`
ScanSkips(m) == m.default_class_id # 0

\* module->mark_as_reloading() returns true: the fingerprint of the file differs from
\* the one taken at the last load (a namespace module has no file)
SourceChanged(m) == m.path # <<>> /\ files[m.path] # m.hash

\* requested_modules after the first loop
Collected == {k \in DOMAIN module_cache :
                 ~ScanSkips(module_cache[k]) /\ SourceChanged(module_cache[k])}

\* the first loop of scan_external_changes: every module of the cache that is not
\* skipped and whose source changed is flagged and its id appended to requested_modules
ScanCollect ==
    /\ fault = "none"
    /\ dtor_pc = "alive"
    /\ scan.pc = "idle"
    /\ module_cache' = [k \in DOMAIN module_cache |->
                           IF k \in Collected
                           THEN [module_cache[k] EXCEPT !.reload_requested = TRUE]
                           ELSE module_cache[k]]
    /\ scan' = [pc |-> "loading", collected |-> Collected, pending |-> Collected,
                calls |-> <<>>]
    /\ mlast' = [mlast EXCEPT !.op = "scan_external_changes", !.id = <<>>, !.parent = <<>>,
                               !.ret = "void", !.error = "none", !.loader = FALSE,
                               !.handed = <<>>, !.consulted = <<>>, !.path = <<>>,
                               !.ran = 0, !.replaced = FALSE, !.code = "none"]
    /\ UNCHANGED <<objvars, fault, regvars, delvars, funvars, exec_count, files, slast>>

\* one iteration of the second loop: load(id) for a requested module (the modules
\* are taken in the order of the cache, which is not modelled: any order)
ScanLoad(id, outcome) ==
    /\ fault = "none"
    /\ dtor_pc = "alive"
    /\ scan.pc = "loading"
    /\ id \in scan.pending
    /\ \E res \in {LoadResult(<<>>, id, outcome)} :
          /\ res.ran = 0 => outcome = "ok"
          /\ outcome # "ok" => res.path \in UnstableFiles
          /\ module_cache' = res.cache
          /\ exec_count' = IF res.ran = 1 THEN [exec_count EXCEPT ![res.path] = @ + 1]
                            ELSE exec_count
          /\ fault' = res.fault
          /\ mlast' = [op |-> "load", id |-> id, parent |-> <<>>, ret |-> res.ret,
                       error |-> res.error, loader |-> res.loader, handed |-> res.handed,
                       consulted |-> res.consulted, path |-> res.path, ran |-> res.ran,
                       replaced |-> res.replaced,
                       code |-> IF res.fault = "none" THEN LoadCode(res.ret) ELSE "none"]
    /\ scan' = [scan EXCEPT !.pending = @ \ {id}, !.calls = Append(@, id)]
    /\ UNCHANGED <<objvars, regvars, delvars, funvars, files, slast>>

\* the second loop has gone through requested_modules: scan_external_changes returns
ScanEnd ==
    /\ fault = "none"
    /\ scan.pc = "loading"
    /\ scan.pending = {}
    /\ scan' = ScanIdle
    /\ UNCHANGED <<objvars, fault, regvars, delvars, funvars, module_cache, exec_count, files,
                   mlast, slast>>

NextModules ==
    \/ \E parent \in ParentIds, id \in RequestIds, outcome \in Outcomes :
            LoadModule(parent, id, outcome)
    \/ \E id \in MarkIds : MarkAsReloading(id)
    \/ \E f \in EditedFiles : FileEdit(f)

SpecModules == Init /\ [][NextModules]_vars

\* the identifiers loaded and the files edited around a scan
ScanRequestIds == {<<"godot">>, <<"a", "b">>, <<"c">>, <<"d">>}
ScanEditedFiles == {<<Root, "a", "b.js">>, <<Root, "c.js">>, <<Root, "lib", "d.js">>}

\* modules are loaded, their files change, and the cache is scanned for changes
NextScan ==
    \/ \E id \in ScanRequestIds, outcome \in Outcomes : LoadModule(<<>>, id, outcome)
    \/ \E f \in ScanEditedFiles : FileEdit(f)
    \/ ScanCollect
    \/ \E id \in ScanEditedFiles, outcome \in Outcomes : ScanLoad(id, outcome)
    \/ ScanEnd

SpecScan == Init /\ [][NextScan]_vars

\* ------------------------------------ DefaultModuleResolver::get_source_info
\* ModuleSourceInfo {}
EmptySourceInfo == [source_filepath |-> <<>>, package_filepath |-> <<>>]

\* check_file_path(p_module_id, o_source_info): the result and the output parameter,
\* which is written only when a file was found
CheckFilePathInfo(path, info) ==
    IF ExtendsWith(path) \in SourceFiles
    THEN [ok |-> TRUE, info |-> [source_filepath |-> ExtendsWith(path),
                                  package_filepath |-> <<>>]]
    ELSE IF PackageMain(path) # <<>>
    THEN [ok |-> TRUE, info |-> [source_filepath |-> PackageMain(path),
                                  package_filepath |-> Combine(path, <<"package.json">>)]]
    ELSE [ok |-> FALSE, info |-> info]

\* a failure that leaves the output parameter as it is
ResetInfo_Keep(info) == info

\* `r_source_info = {}`
ResetInfo(info) == EmptySourceInfo

\* the loop over search_paths_ from position i on
RECURSIVE SearchFrom(_, _, _, _, _)
SearchFrom(search_paths, i, id, info, checked) ==
    IF i > Len(search_paths)
    THEN [ret |-> FALSE, r_source_info |-> ResetInfo(info), checked |-> checked]
    ELSE LET filename == Combine(search_paths[i], id)
             c == CheckFilePathInfo(filename, info)
         IN IF c.ok
            THEN [ret |-> TRUE, r_source_info |-> c.info, checked |-> Append(checked, filename)]
            ELSE SearchFrom(search_paths, i + 1, id, c.info, Append(checked, filename))

\* get_source_info(p_module_id, r_source_info) of a resolver with the given search
\* paths: the value returned, the output parameter, and the paths check_file_path
\* was called with
SourceInfoResult(search_paths, id, info) ==
    IF IsAbsolutePath(id)
    THEN LET c == CheckFilePathInfo(id, info)
         IN IF c.ok
            THEN [ret |-> TRUE, r_source_info |-> c.info, checked |-> <<id>>]
            ELSE [ret |-> FALSE, r_source_info |-> ResetInfo(c.info), checked |-> <<id>>]
    ELSE SearchFrom(search_paths, 1, id, info, <<>>)

\* the directories given to add_search_path, the identifiers resolved and the values
\* the output parameter holds before the call
SearchDirs == {<<Root>>, <<Root, "lib">>, <<Root, "a">>}
SearchPathLists ==
    UNION {[1..n -> SearchDirs] : n \in 0..MaxSearchPaths}
ResolvedIds == {<<"c">>, <<"d">>, <<"b">>, <<"pkg">>, <<"bad">>, <<"nomain">>, <<"a", "b">>,
                <<Root, "c">>, <<Root, "d">>, <<Root, "lib", "d">>, <<Root, "pkg">>}
PriorInfos == {EmptySourceInfo,
               [source_filepath |-> <<Root, "godot.js">>, package_filepath |-> <<>>]}

\* a resolver whose search paths were added in the order of `search_paths` is asked
\* for the source of `id`
GetSourceInfoCall(search_paths, id, info) ==
    /\ fault = "none"
    /\ \E res \in {SourceInfoResult(search_paths, id, info)} :
          slast' = [op |-> "get_source_info", search_paths |-> search_paths, id |-> id,
                    ret |-> res.ret, r_source_info |-> res.r_source_info,
                    checked |-> res.checked]
    /\ UNCHANGED <<objvars, fault, regvars, delvars, funvars, module_cache, exec_count, files,
                   mlast, scan>>

NextResolve ==
    \E search_paths \in SearchPathLists, id \in ResolvedIds, info \in PriorInfos :
        GetSourceInfoCall(search_paths, id, info)

SpecResolve == Init /\ [][NextResolve]_vars

\* ============================================================ properties
\* the classes bind_pointer accepts: registered and not a valuetype
ObjectClasses == {c \in DOMAIN native_classes : native_classes[c].type = "GodotObject"}

\* the handle the index gives for a bound pointer
HandleOf(p) == objects[objects_index[p]]

\* C1: bind_pointer of a valid object class succeeds only when the pointer has no entry in
\* the object index: on a bound pointer it trips 'duplicated bindings' and binds nothing,
\* on a pointer without entry (never bound, or released) it succeeds and the index gets a
\* handle id that was not in the handle table before, all other handles staying as they were.
C1_BindRequiresUnbound ==
    [][\A c \in ObjectClasses, p \in Pointers :
          (last'.op = "bind_pointer" /\ last'.ptr = p
             /\ \E o \in JSObjects, policy \in Policies : BindPointer(c, p, o, policy)) =>
             IF HasIndex(p)
             THEN /\ fault' = "duplicated bindings"
                  /\ UNCHANGED <<objects, objects_index>>
             ELSE /\ fault' = "none"
                  /\ p \in DOMAIN objects_index'
                  /\ objects_index'[p] \notin DOMAIN objects
                  /\ DOMAIN objects' = DOMAIN objects \cup {objects_index'[p]}
                  /\ objects'[objects_index'[p]].pointer = p
                  /\ \A id \in DOMAIN objects : objects'[id] = objects[id]
                  /\ \A q \in DOMAIN objects_index : objects_index'[q] = objects_index[q]]_vars

\* a pointer released by the collector was bound again by its finalizer, and a further
\* bind of it tripped the assertion
C1_Witness ==
    /\ fault = "duplicated bindings"
    /\ last.op = "bind_pointer"
    /\ fin_stack # <<>>
    /\ fin_stack[1].pointer = last.ptr
    /\ HasIndex(last.ptr)

\* C2: every bound pointer has exactly one handle, and a handle's reference is weak
\* exactly when its ref_count is 0 and strong exactly when it is above 0.
C2_OneHandleWeakIffZero ==
    /\ \A p \in DOMAIN objects_index : Cardinality(HandlesOf(p)) = 1
    /\ \A id \in DOMAIN objects :
          /\ objects[id].ref_count_ = 0 <=> objects[id].weak
          /\ objects[id].ref_count_ > 0 <=> ~objects[id].weak

\* both kinds of handle exist after references were added and removed
C2_Witness ==
    /\ last.op = "reference_object"
    /\ ~last.is_inc
    /\ last.pre_ref_count = 1
    /\ \E id \in DOMAIN objects : objects[id].weak
    /\ \E id \in DOMAIN objects : ~objects[id].weak /\ objects[id].ref_count_ = MaxRef

\* C3: right after a successful bind_pointer the handle has ref_count 0 and a weak reference
\* (collection callback installed) under policy Managed, ref_count 1 and a strong reference
\* under policy External.
C3_InitialHandleByPolicy ==
    [][\A c \in ClassInputs, p \in Pointers, o \in JSObjects, policy \in Policies :
          last'.op = "bind_pointer" /\ fault' = "none" /\ BindPointer(c, p, o, policy) =>
             /\ p \in DOMAIN objects_index'
             /\ LET h == objects'[objects_index'[p]]
                IN IF policy = "Managed"
                   THEN h.ref_count_ = 0 /\ h.weak
                   ELSE h.ref_count_ = 1 /\ ~h.weak]_vars

\* a Managed and an External handle side by side, the second just bound
C3_Witness ==
    /\ last.op = "bind_pointer"
    /\ fault = "none"
    /\ HasIndex(last.ptr)
    /\ HandleOf(last.ptr).ref_count_ = 1 /\ ~HandleOf(last.ptr).weak
    /\ \E q \in DOMAIN objects_index : HandleOf(q).ref_count_ = 0 /\ HandleOf(q).weak

\* C4: on a bound pointer, an increment at ref_count 0 clears the weak marker and then
\* raises the count to 1; a decrement at ref_count 1 lowers the count to 0 and installs
\* the weak collection callback again.
C4_WeakStrongTransitions ==
    [][\A p \in Pointers :
          HasIndex(p) =>
             /\ (ReferenceObject(p, TRUE) /\ HandleOf(p).ref_count_ = 0 =>
                   /\ objects'[objects_index[p]].ref_count_ = 1
                   /\ ~objects'[objects_index[p]].weak
                   /\ last'.effects = <<"ClearWeak", "++ref_count_">>)
             /\ (ReferenceObject(p, FALSE) /\ HandleOf(p).ref_count_ = 1 =>
                   /\ objects'[objects_index[p]].ref_count_ = 0
                   /\ objects'[objects_index[p]].weak
                   /\ last'.effects = <<"--ref_count_", "SetWeak">>)]_vars

\* a handle bound strong went weak by a decrement and was made strong again
C4_Witness ==
    /\ last.op = "reference_object"
    /\ last.is_inc
    /\ last.pre_bound
    /\ last.pre_ref_count = 0
    /\ last.ptr \in persistent_objects
    /\ HasIndex(last.ptr)
    /\ HandleOf(last.ptr).ref_count_ = 1

\* C5: for a bound pointer reference_object returns true exactly when the call was a
\* decrement and ref_count is 0 after it; a decrement at 0 leaves the handle as it was
\* and returns true; ref_count never goes below 0.
C5_ReturnsTrueIffDecrementAtZero ==
    /\ \A id \in DOMAIN objects : objects[id].ref_count_ >= 0
    /\ (last.op = "reference_object" /\ last.pre_bound /\ fault = "none" /\ HasIndex(last.ptr)) =>
          /\ last.ret = "true" <=> (~last.is_inc /\ HandleOf(last.ptr).ref_count_ = 0)
          /\ last.ret \in {"true", "false"}
          /\ (~last.is_inc /\ last.pre_ref_count = 0) =>
                /\ HandleOf(last.ptr).ref_count_ = 0
                /\ HandleOf(last.ptr).weak
                /\ last.effects = <<>>
          /\ last.is_inc => HandleOf(last.ptr).ref_count_ = last.pre_ref_count + 1
          /\ (~last.is_inc /\ last.pre_ref_count > 0) =>
                HandleOf(last.ptr).ref_count_ = last.pre_ref_count - 1

\* a decrement on a handle that was already at 0
C5_Witness ==
    /\ last.op = "reference_object"
    /\ ~last.is_inc
    /\ last.pre_bound
    /\ last.pre_ref_count = 0
    /\ last.ret = "true"
    /\ HasIndex(last.ptr)

\* C6: on a pointer without entry in the index reference_object returns true in either
\* direction, unbind_pointer and mark_as_persistent_object do nothing; no table changes,
\* no handle is created, no finalizer runs and no assertion trips.
C6_UnboundPointerTolerated ==
    [][\A p \in Pointers :
          ~HasIndex(p) =>
             /\ (ReferenceObject(p, TRUE) \/ ReferenceObject(p, FALSE) => last'.ret = "true")
             /\ (ReferenceObject(p, TRUE) \/ ReferenceObject(p, FALSE)
                   \/ UnbindPointer(p) \/ MarkAsPersistentObject(p) =>
                   /\ UNCHANGED <<objects, objects_index, persistent_objects, internal_field,
                                  fin_stack, fault>>
                   /\ fault' = "none")]_vars

\* mark_as_persistent_object on a pointer that its own release has just removed
C6_Witness ==
    /\ last.op = "mark_as_persistent_object"
    /\ ~last.pre_bound
    /\ fin_stack # <<>>
    /\ fin_stack[1].pointer = last.ptr
    /\ ~HasIndex(last.ptr)
    /\ persistent_objects = {}
    /\ fault = "none"

\* C7: when free_object invokes the class finalizer for P, P is in neither the index nor
\* the handle table, so a lookup of P by the finalizer reports "not bound" and a bind of
\* P with any object class passes its assertions.
C7_IndexRemovedBeforeFinalizer ==
    [][\A P \in Pointers :
          (Len(fin_stack') > Len(fin_stack) /\ fin_stack'[Len(fin_stack')].pointer = P) =>
             /\ P \notin DOMAIN objects_index'
             /\ \A id \in DOMAIN objects' : objects'[id].pointer # P
             /\ P \notin persistent_objects'
             /\ \A c \in ObjectClasses : (BindFault(c, P))' = "none"]_vars

\* the finalizer of a collected pointer has bound the pointer again
C7_Witness ==
    /\ fault = "none"
    /\ last.op = "bind_pointer"
    /\ dtor_pc = "alive"
    /\ fin_stack # <<>>
    /\ fin_stack[1].pointer = last.ptr
    /\ HasIndex(last.ptr)

\* C8: a release by object_gc_callback invokes the finalizer of the handle's class once,
\* with was_persistent telling whether the pointer was in the persistent set; a release
\* by unbind_pointer invokes no finalizer, clears the internal field of the script object
\* and removes the handle.
C8_FinalizerOnlyFromCollector ==
    [][/\ \A id \in ObjectIDs :
             ObjectGCCallback(id) =>
                /\ fin_stack' = Append(fin_stack,
                                       [pointer |-> objects[id].pointer,
                                        class_id |-> objects[id].class_id,
                                        was_persistent |-> objects[id].pointer \in persistent_objects])
                /\ last'.finalizer_calls = 1
       /\ \A p \in Pointers :
             HasIndex(p) /\ UnbindPointer(p) =>
                /\ fin_stack' = fin_stack
                /\ last'.finalizer_calls = 0
                /\ internal_field'[HandleOf(p).ref_] = NullPtr
                /\ objects_index[p] \notin DOMAIN objects'
                /\ p \notin DOMAIN objects_index']_vars

\* the collector released a pointer that was in the persistent set
C8_Witness ==
    /\ last.op = "object_gc_callback"
    /\ last.pre_persistent
    /\ fin_stack # <<>>
    /\ fin_stack[1].was_persistent
    /\ fin_stack[1].pointer = last.ptr

\* C9 as stated: the teardown flush breaks the links of every remaining object without
\* invoking the class finalizer.
C9_FlushSkipsFinalizer ==
    last.op = "flush" => last.finalizer_calls = 0 /\ fin_stack = <<>>

\* C9 amended: the teardown flush releases every remaining object with p_free = true: the
\* object leaves the index, the handle table and the persistent set, its class finalizer
\* is invoked once (was_persistent as at the release) and its internal field is not cleared.
C9_FlushInvokesFinalizer ==
    [][\A p \in Pointers :
          DtorFlushObject(p) =>
             /\ fin_stack' = <<[pointer |-> p,
                                class_id |-> HandleOf(p).class_id,
                                was_persistent |-> p \in persistent_objects]>>
             /\ last'.finalizer_calls = 1
             /\ internal_field' = internal_field
             /\ p \notin DOMAIN objects_index'
             /\ objects_index[p] \notin DOMAIN objects'
             /\ p \notin persistent_objects']_vars

\* the flush released a persistent object and its finalizer is running
C9_Witness ==
    /\ dtor_pc = "flush"
    /\ last.op = "flush"
    /\ last.pre_persistent
    /\ fin_stack # <<>>
    /\ internal_field[CHOOSE o \in JSObjects : TRUE] # NullPtr

\* C10: the destructor has removed the instance from the registry when it flushes a bound
\* object, and it disposes the isolate only when the index and the handle table are empty.
C10_UnregisterFlushDispose ==
    /\ dtor_pc = "flush" => ~all_runtimes
    /\ last.op = "flush" => ~all_runtimes /\ isolate_ = "alive"
    /\ isolate_ = "disposed" => DOMAIN objects_index = {} /\ DOMAIN objects = {}
    /\ dtor_pc \in {"isolate", "sync_delete", "done"} => DOMAIN objects_index = {} /\ DOMAIN objects = {}

\* two objects were still bound; the second is being flushed
C10_Witness ==
    /\ dtor_pc = "flush"
    /\ last.op = "flush"
    /\ DOMAIN objects_index = {}
    /\ fin_stack # <<>>
    /\ ~all_runtimes
    /\ isolate_ = "alive"
    /\ internal_field["o1"] # NullPtr
    /\ internal_field["o2"] # NullPtr
    /\ internal_field["o1"] # internal_field["o2"]
\* C11 (as stated): the destructor detaches the context hooks first and only then
\* clears the function-reference cache, drops the module cache, drops the symbol
\* table, leaves the registry, flushes the bound objects and disposes the context.
C11_HooksDetachedFirst ==
    /\ "function_cache" \in torn_down => "context" \in torn_down
    /\ "module_cache" \in torn_down => "function_cache" \in torn_down
    /\ "symbols" \in torn_down => "module_cache" \in torn_down
    /\ ~all_runtimes => "symbols" \in torn_down
    /\ "flush" \in torn_down => ~all_runtimes
    /\ isolate_ = "disposed" => "flush" \in torn_down

\* C11 (amended): the destructor clears the function-reference cache first, then
\* detaches the context hooks, then drops the module cache, then the symbol table,
\* then leaves the registry, then flushes the bound objects, then disposes the context.
C11_FunctionCacheClearedFirst ==
    /\ "context" \in torn_down => "function_cache" \in torn_down
    /\ "module_cache" \in torn_down => "context" \in torn_down
    /\ "symbols" \in torn_down => "module_cache" \in torn_down
    /\ ~all_runtimes => "symbols" \in torn_down
    /\ "flush" \in torn_down => ~all_runtimes
    /\ isolate_ = "disposed" => "flush" \in torn_down

\* the function cache is cleared while the hooks of the context are still attached
C11_Witness ==
    /\ dtor_pc = "context"
    /\ "function_cache" \in torn_down
    /\ "context" \notin torn_down

\* C12: once the destructor has started, no lookup of the registry made by any
\* thread yields a handle to the bridge, whether the lookup began before or after
\* that moment and whether or not the destructor has left the registry yet.
C12_NoHandleOnceDestructorStarted ==
    [][\A t \in Threads :
          (dtor_pc' # "alive" /\ cb[t].rval = "empty") => cb'[t].rval = "empty"]_vars

\* a lookup made while the destructor was running and the bridge still registered
\* ended without a handle
C12_Witness ==
    /\ dtor_pc \notin {"alive", "done"}
    /\ all_runtimes
    /\ \E t \in Threads : cb[t].pc = "thrown" /\ cb[t].rval = "empty"

\* C13: while a callback holds the handle a successful lookup gave it, the
\* destructor of the bridge has not started.
C13_HandleKeepsBridgeAlive ==
    \A t \in Threads : cb[t].rval # "empty" => dtor_pc = "alive"

\* the owner has released the bridge while a callback holds a handle: no destructor yet
C13_Witness ==
    /\ ~owner_ref
    /\ dtor_pc = "alive"
    /\ \E t \in Threads : cb[t].rval = "shared" /\ cb[t].pc = "returned"

\* C14: a lookup yields a handle exactly if the bridge is registered at that
\* time; a callback whose lookup yielded none leaves the binding tables alone
\* (and reference_callback returns true); the registry changes and is read only
\* by the one thread that holds its lock.
C14_LookupIffRegistered ==
    [][/\ \A t \in Threads :
            (cb[t].pc = "locked" /\ cb'[t].pc # "locked")
                => (cb'[t].rval = "shared" <=> all_runtimes)
       /\ \A t \in Threads :
            (cb[t].pc = "returned" /\ cb[t].rval = "empty" /\ cb'[t].pc = "idle")
                => /\ UNCHANGED <<objects, objects_index, persistent_objects, internal_field>>
                   /\ cb[t].kind # "free" => last'.ret = "true"
       /\ all_runtimes' # all_runtimes => lock_ = "none"
       /\ \A t \in Threads : cb'[t].pc \in {"locked", "looked"} => lock_' = t]_vars

\* C15: a public operation called from a thread other than the owner trips the
\* thread assertion, and does so before it has read or changed any state of the bridge.
C15_ThreadAssertedFirst ==
    (last.thread # OwnerThread /\ last.op \in PublicOps)
        => (fault = ThreadFault /\ last.effects = <<>>)

\* a step of _load_module (the only step that leaves the name in mlast and the files alone)
IsLoadStep == mlast'.op = "_load_module" /\ files' = files

\* a step of mark_as_reloading
IsMarkStep == mlast'.op = "mark_as_reloading" /\ files' = files

\* C16: a module that is cached as loaded with no reload requested is not run
\* again and keeps its module object and its exports; a load that resolves to it
\* returns that record and leaves the cache as it is.
C16_CachedLoadDoesNotRerun ==
    [][/\ \A f \in DOMAIN module_cache :
            (module_cache[f].loaded /\ ~module_cache[f].reload_requested)
                => /\ f \in SourceFiles => exec_count'[f] = exec_count[f]
                   /\ f \in DOMAIN module_cache'
                   /\ module_cache'[f].exports = module_cache[f].exports
                   /\ module_cache'[f].obj = module_cache[f].obj
       /\ \A f \in DOMAIN module_cache :
            (/\ IsLoadStep
             /\ f \in {mlast'.id, mlast'.path}
             /\ module_cache[f].loaded /\ ~module_cache[f].reload_requested)
                => /\ mlast'.ret = f
                   /\ mlast'.ran = 0
                   /\ module_cache' = module_cache]_vars

\* a second load of a loaded source module returned it from the cache: its body
\* has run once
C16_Witness ==
    /\ mlast.op = "_load_module"
    /\ mlast.ret \in SourceFiles
    /\ mlast.ran = 0
    /\ module_cache[mlast.ret].loaded
    /\ exec_count[mlast.ret] = 1

C18_MarkOnlyFlags ==
    [][IsMarkStep
          => /\ exec_count' = exec_count
             /\ DOMAIN module_cache' = DOMAIN module_cache
             /\ \A k \in DOMAIN module_cache :
                    [module_cache'[k] EXCEPT !.reload_requested = module_cache[k].reload_requested]
                        = module_cache[k]
             /\ mlast'.id \notin DOMAIN module_cache
                    => mlast'.ret = "NoSuchModule" /\ module_cache' = module_cache]_vars

\* a loaded module whose file changed has been flagged; its exports are still there
C18_Witness ==
    /\ mlast.op = "mark_as_reloading"
    /\ mlast.ret = "Requested"
    /\ module_cache[mlast.id].loaded
    /\ module_cache[mlast.id].reload_requested
    /\ module_cache[mlast.id].exports = ExportsObj
    /\ exec_count[mlast.id] = 1

\* C19: a load that reaches the resolvers hands them the identifier unchanged,
\* unless it begins with "./" or "../": then it hands them the identifier joined to
\* the directory of the requesting module, with "." and ".." resolved (from a/b,
\* ./c gives a/c and ../c gives c); when that cannot be done the load raises
\* 'bad path', returns nothing, runs nothing and leaves the cache as it is.
C19_RelativeToRequester ==
    [][/\ NormalizedId(<<"a", "b">>, <<".", "c">>) = [ok |-> TRUE, id |-> <<"a", "c">>]
       /\ NormalizedId(<<"a", "b">>, <<"..", "c">>) = [ok |-> TRUE, id |-> <<"c">>]
       /\ (IsLoadStep /\ ~mlast'.loader /\ mlast'.id \notin DOMAIN module_cache)
            => LET parent == mlast'.parent
                   id == mlast'.id
                   bad == /\ mlast'.error = "bad path"
                          /\ mlast'.ret = <<>>
                          /\ mlast'.consulted = <<>>
                          /\ module_cache' = module_cache
                          /\ exec_count' = exec_count
               IN /\ mlast'.error = "bad path" => bad
                  /\ id \notin {<<".", "c">>, <<"..", "c">>} => mlast'.handed = id
                  /\ (parent = <<Root, "a", "b.js">> /\ id = <<".", "c">>)
                        => mlast'.handed = <<Root, "a", "c">>
                  /\ (parent = <<Root, "a", "b.js">> /\ id = <<"..", "c">>)
                        => mlast'.handed = <<Root, "c">>
                  /\ (parent = <<>> /\ id = <<".", "c">>) => mlast'.handed = <<"c">>
                  /\ (parent = <<>> /\ id = <<"..", "c">>) => bad]_vars

\* module a/b required "../c": the resolvers were asked for c next to the
\* directory a, and the module found there was loaded
C19_Witness ==
    /\ mlast.op = "_load_module"
    /\ mlast.parent = <<Root, "a", "b.js">>
    /\ mlast.id = <<"..", "c">>
    /\ mlast.handed = <<Root, "c">>
    /\ mlast.ret = <<Root, "c.js">>
    /\ mlast.ran = 1

\* C20: an identifier with a namespace loader is served by the loader (or by the
\* record the loader made) and no resolver is asked; any other identifier is put to
\* the resolvers in registration order, up to and including the first that
\* reports a source path, and that path is the module that is loaded.
C20_LoadersThenResolversInOrder ==
    mlast.op = "_load_module"
        => /\ mlast.id \in ModuleLoaders
                => mlast.consulted = <<>> /\ mlast.path = <<>> /\ mlast.ret \in {<<>>, mlast.id}
           /\ mlast.loader => mlast.id \in ModuleLoaders
           /\ \A k \in 1..Len(mlast.consulted) :
                /\ mlast.consulted[k] = k
                /\ k < Len(mlast.consulted) => GetSourceInfo(k, mlast.handed) = <<>>
           /\ mlast.path # <<>>
                => /\ mlast.consulted # <<>>
                   /\ mlast.path = GetSourceInfo(Len(mlast.consulted), mlast.handed)
                   /\ mlast.ret \in {<<>>, mlast.path}
           /\ (mlast.path = <<>> /\ mlast.consulted # <<>>)
                => /\ Len(mlast.consulted) = Len(ModuleResolvers)
                   /\ GetSourceInfo(Len(ModuleResolvers), mlast.handed) = <<>>
                   /\ mlast.error = "unknown module"
                   /\ mlast.ret = <<>>

\* "godot" was served by its loader although a resolver would find godot.js, and
\* "d", which the first resolver does not find, was loaded from the second
C20_Witness ==
    /\ mlast.op = "_load_module"
    /\ mlast.id = <<"d">>
    /\ mlast.consulted = <<1, 2>>
    /\ mlast.ret = <<Root, "lib", "d.js">>
    /\ <<"godot">> \in DOMAIN module_cache
    /\ module_cache[<<"godot">>].loaded
    /\ GetSourceInfo(1, <<"godot">>) = <<Root, "godot.js">>
    /\ <<Root, "godot.js">> \notin DOMAIN module_cache

\* C21: check_file_path takes the identifier as a direct file (extension appended
\* when missing) and only when that file is absent the "main" entry of the package
\* descriptor at that path, relative to the descriptor's directory; the first
\* candidate with an existing file wins ("pkg" resolves to pkg/index.js), and when
\* neither exists, the descriptor does not parse or its main file is absent, the
\* resolution fails.
C21_DirectFileThenPackage ==
    mlast.op = "_load_module" /\ mlast.handed # <<>> =>
        LET cands == IF IsAbsolutePath(mlast.handed) THEN << mlast.handed >>
                     ELSE [i \in 1..Len(ModuleResolvers) |->
                              Combine(ModuleResolvers[i].search_paths[1], mlast.handed)]
            Direct(p) == ExtendsWith(p) \in SourceFiles
            Desc(p) == Combine(p, <<"package.json">>)
            Main(p) == Extract(Combine(p, ExtendsWith(PackageFiles[Desc(p)].main)))
            Package(p) == /\ Desc(p) \in DOMAIN PackageFiles
                          /\ PackageFiles[Desc(p)].parsed
                          /\ Main(p).ok
                          /\ Main(p).path \in SourceFiles
            found == {i \in 1..Len(cands) : Direct(cands[i]) \/ Package(cands[i])}
            first == cands[CHOOSE i \in found : \A j \in found : i <= j]
        IN /\ IF found = {}
              THEN mlast.path = <<>> /\ mlast.error = "unknown module" /\ mlast.ret = <<>>
              ELSE mlast.path = IF Direct(first) THEN ExtendsWith(first) ELSE Main(first).path
           /\ mlast.handed = <<"pkg">> => mlast.path = <<Root, "pkg", "index.js">>
           /\ mlast.handed = <<"c">> => mlast.path = <<Root, "c.js">>
           /\ mlast.handed \in {<<"bad">>, <<"nomain">>} => mlast.path = <<>>

\* "pkg" has been required and pkg/index.js was run
C21_Witness ==
    /\ mlast.op = "_load_module"
    /\ mlast.handed = <<"pkg">>
    /\ mlast.ret = <<Root, "pkg", "index.js">>
    /\ mlast.ran = 1

\* C22: when the body of a module fails to compile or run during the first load of
\* its identity, the load returns no record (and load() an error), and the record
\* of that identity is not loaded afterwards.
C22_FailedFirstLoadNotLoaded ==
    [][(/\ IsLoadStep
        /\ mlast'.error = "exception"
        /\ (IF mlast'.loader THEN mlast'.id ELSE mlast'.path) \notin DOMAIN module_cache)
          => /\ mlast'.ret = <<>>
             /\ mlast'.code # "OK"
             /\ \A k \in {mlast'.id, mlast'.path} \cap DOMAIN module_cache' :
                    ~module_cache'[k].loaded /\ ~IsLoaded(module_cache'[k])]_vars

\* the first run of a body threw: its record is cached and not loaded
C22_Witness ==
    /\ mlast.op = "_load_module"
    /\ mlast.error = "exception"
    /\ mlast.ran = 1
    /\ exec_count[mlast.path] = 1
    /\ mlast.path \in DOMAIN module_cache
    /\ ~module_cache[mlast.path].loaded

\* C23: a load of an identity whose earlier load failed during execution (its
\* record is cached and was never loaded) runs the body again, and when that run
\* succeeds the record is loaded, so that the next load is a cache hit.
C23_RetryMarksLoaded ==
    [][\A p \in DOMAIN module_cache :
          (/\ IsLoadStep
           /\ mlast'.path = p
           /\ ~module_cache[p].loaded
           /\ exec_count[p] > 0
           /\ mlast'.error # "failed to read module source")
              => /\ mlast'.ran = 1
                 /\ mlast'.error = "none" => IsLoaded(module_cache'[p])]_vars

\* C24: a load of an identifier that no loader and no resolver knows fails with
\* "unknown module", returns no record and leaves the module cache (and the run
\* counts) exactly as they were.
C24_UnknownModuleLeavesCache ==
    [][/\ (IsLoadStep /\ mlast'.error = "unknown module")
            => /\ module_cache' = module_cache
               /\ exec_count' = exec_count
               /\ mlast'.ret = <<>>
               /\ mlast'.ran = 0
       /\ (/\ IsLoadStep
           /\ mlast'.id \notin ModuleLoaders
           /\ mlast'.handed # <<>>
           /\ \A r \in 1..Len(ModuleResolvers) : GetSourceInfo(r, mlast'.handed) = <<>>)
            => mlast'.error = "unknown module"]_vars

\* an unknown identifier was required while a module with a pending reload request
\* is cached
C24_Witness ==
    /\ mlast.op = "_load_module"
    /\ mlast.error = "unknown module"
    /\ \E k \in DOMAIN module_cache :
          module_cache[k].loaded /\ module_cache[k].reload_requested

\* C25: a module whose body has been run successfully by a load with a parent
\* identity is in the children list of that parent.
C25_LoadedChildAppended ==
    [][(/\ IsLoadStep
        /\ mlast'.ran = 1
        /\ mlast'.error = "none"
        /\ mlast'.parent # <<>>)
          => \E i \in DOMAIN module_cache'[mlast'.parent].children :
                 module_cache'[mlast'.parent].children[i] = mlast'.path]_vars

\* C26: after a body has run successfully the exports of the record is the value of
\* module.exports read back from the module object: the replacement when the body
\* assigned one (not the object passed as first argument), that object otherwise.
C26_ExportsReadBack ==
    [][(IsLoadStep /\ mlast'.ran = 1 /\ mlast'.error = "none")
          => LET p == mlast'.path
                 argument == IF p \in DOMAIN module_cache THEN module_cache[p].exports
                             ELSE ExportsObj
             IN /\ module_cache'[p].exports = module_cache'[p].module_exports
                /\ mlast'.replaced
                      => /\ module_cache'[p].exports = Replacement(exec_count'[p])
                         /\ module_cache'[p].exports # argument
                /\ ~mlast'.replaced => module_cache'[p].exports = argument]_vars

\* a body that assigned module.exports has run: the record holds the replacement
C26_Witness ==
    /\ mlast.op = "_load_module"
    /\ mlast.replaced
    /\ module_cache[mlast.path].exports.kind = "replaced"
    /\ module_cache[mlast.path].loaded

\* C29: load returns OK exactly when _load_module returned a record; whenever the
\* resolution or the execution failed it returns ERR_COMPILATION_FAILED.
C29_LoadOkIffModule ==
    (mlast.op = "_load_module" /\ mlast.parent = <<>> /\ fault = "none")
        => /\ mlast.code = "OK" <=> mlast.ret # <<>>
           /\ mlast.code \in {"OK", "ERR_COMPILATION_FAILED"}
           /\ mlast.error # "none" => mlast.code = "ERR_COMPILATION_FAILED"

\* a load whose body threw has returned ERR_COMPILATION_FAILED
C29_Witness ==
    /\ mlast.op = "_load_module"
    /\ mlast.parent = <<>>
    /\ mlast.error = "exception"
    /\ mlast.code = "ERR_COMPILATION_FAILED"

\* C30: when the body of a loaded module with a reload requested fails on being run
\* again, the module is not loaded afterwards (the next load runs it again).
C30_FailedReloadNotLoaded ==
    [][\A p \in DOMAIN module_cache :
          (/\ IsLoadStep
           /\ mlast'.path = p
           /\ module_cache[p].loaded /\ module_cache[p].reload_requested
           /\ mlast'.error = "exception")
              => ~IsLoaded(module_cache'[p])]_vars

\* C28: mark_as_persistent_object on a bound pointer that is not persistent raises
\* ref_count_ by exactly one, leaves the reference strong and puts the pointer into
\* persistent_objects_, changing no other handle; on a pointer that is persistent
\* already it is a fatal assertion and neither the count nor the set changes.
C28_MarkPersistentOnce ==
    [][\A p \in Pointers :
          (MarkAsPersistentObject(p) /\ HasIndex(p))
              => LET id == objects_index[p]
                 IN IF p \in persistent_objects
                    THEN /\ fault' = "duplicate adding persistent object"
                         /\ objects' = objects
                         /\ persistent_objects' = persistent_objects
                    ELSE /\ fault' = "none"
                         /\ objects' = [objects EXCEPT ![id].ref_count_ = @ + 1,
                                                       ![id].weak = FALSE]
                         /\ persistent_objects' = persistent_objects \cup {p}
                         /\ last'.effects = IF objects[id].weak
                                            THEN <<"ClearWeak", "++ref_count_">>
                                            ELSE <<"++ref_count_">>]_vars

\* a weakly referenced object has been marked persistent: it is strong, counted
\* once and in the persistent set
C28_Witness ==
    /\ last.op = "mark_as_persistent_object"
    /\ last.pre_bound
    /\ last.pre_ref_count = 0
    /\ last.ptr \in persistent_objects
    /\ last.effects = <<"ClearWeak", "++ref_count_">>
    /\ objects[objects_index[last.ptr]].ref_count_ = 1

\* C27: a Callable, Array or Dictionary released by the collector is never freed
\* in place by the collector thread: whenever one has been freed, the owning
\* thread freed it (in update() or in the destructor).
C27_CompositeFreedByOwner ==
    \A v \in Variants :
        (variants[v].type \in Composite /\ variants[v].state = "freed")
            => variants[v].freed_by = OwnerThread

\* C31: no class record is removed while an object of that class is bound: every handle
\* and every finalizer that is running refers to a record of native_classes_, and the
\* destructor has released every bound object when it has cleared the table.
C31_ClassesOutliveObjects ==
    /\ \A id \in DOMAIN objects : objects[id].class_id \in DOMAIN native_classes
    /\ \A i \in DOMAIN fin_stack : fin_stack[i].class_id \in DOMAIN native_classes
    /\ "native_classes" \in torn_down => DOMAIN objects = {} /\ DOMAIN objects_index = {}
    /\ native_classes = <<>> => "native_classes" \in torn_down

\* the flush loop of the destructor dispatches the finalizer of a bound object by its
\* class_id while the class table is still complete
C31_Witness ==
    /\ dtor_pc = "flush"
    /\ last.op = "flush"
    /\ last.finalizer_calls = 1
    /\ fin_stack # <<>>
    /\ fin_stack[Len(fin_stack)].class_id \in DOMAIN native_classes
    /\ "native_classes" \notin torn_down

\* C32: scan_external_changes first flags and collects exactly the cached modules that
\* are not attached to a script class and whose source changed, running no body
\* meanwhile; only then it loads the collected identities, each exactly once; a module
\* attached to a script class is neither flagged nor reloaded by the scan.
C32_ScanCollectsThenLoads ==
    [][/\ (scan.pc = "idle" /\ scan'.pc = "loading") =>
             /\ scan'.collected = {k \in DOMAIN module_cache :
                                      /\ module_cache[k].default_class_id = 0
                                      /\ module_cache[k].path # <<>>
                                      /\ files[module_cache[k].path] # module_cache[k].hash}
             /\ scan'.pending = scan'.collected
             /\ scan'.calls = <<>>
             /\ exec_count' = exec_count
             /\ DOMAIN module_cache' = DOMAIN module_cache
             /\ \A k \in DOMAIN module_cache :
                   module_cache'[k] = IF k \in scan'.collected
                                      THEN [module_cache[k] EXCEPT !.reload_requested = TRUE]
                                      ELSE module_cache[k]
       /\ (scan.pc = "loading" /\ scan'.pc = "loading" /\ scan' # scan) =>
             /\ mlast'.op = "load"
             /\ mlast'.id \in scan.collected
             /\ \A i \in DOMAIN scan.calls : scan.calls[i] # mlast'.id
             /\ scan'.calls = Append(scan.calls, mlast'.id)
             /\ scan'.collected = scan.collected
             /\ \A k \in DOMAIN module_cache :
                   module_cache[k].default_class_id # 0 => module_cache'[k] = module_cache[k]
       /\ (scan.pc = "loading" /\ scan'.pc = "idle") =>
             /\ {scan.calls[i] : i \in DOMAIN scan.calls} = scan.collected
             /\ Len(scan.calls) = Cardinality(scan.collected)
             /\ module_cache' = module_cache
      ]_vars

\* a scan has flagged and then reloaded two changed modules, and has left alone a
\* changed module that is attached to a script class
C32_Witness ==
    /\ scan.pc = "loading"
    /\ scan.pending = {}
    /\ Len(scan.calls) = 2
    /\ <<Root, "a", "b.js">> \in DOMAIN module_cache
    /\ module_cache[<<Root, "a", "b.js">>].default_class_id # 0
    /\ files[<<Root, "a", "b.js">>] # module_cache[<<Root, "a", "b.js">>].hash
    /\ IsLoaded(module_cache[<<Root, "a", "b.js">>])
    /\ \A i \in DOMAIN scan.calls : exec_count[scan.calls[i]] = 2

\* a step of the flush loop: free_object(objects_index_.begin()->key, true)
IsFlushIteration == dtor_pc = "flush" /\ fin_stack = <<>> /\ last'.op = "flush"

\* the flush loop has ended with the handle table and the object index empty
FlushDone == "flush" \in torn_down /\ DOMAIN objects = {} /\ DOMAIN objects_index = {}

C34_IndexHandleCorrespondence ==
    [][/\ Cardinality(DOMAIN objects') = Cardinality(DOMAIN objects_index')
       /\ \A p \in DOMAIN objects_index' :
             /\ objects_index'[p] \in DOMAIN objects'
             /\ objects'[objects_index'[p]].pointer = p
       /\ persistent_objects' \subseteq DOMAIN objects_index'
       /\ \A p \in DOMAIN objects_index \ DOMAIN objects_index' :
             /\ objects_index[p] \notin DOMAIN objects'
             /\ \A id \in DOMAIN objects' : objects'[id].pointer # p
             /\ p \notin persistent_objects'
      ]_vars

\* a persistent object has been released while another object stays bound
C34_Witness ==
    /\ last.op \in {"unbind_pointer", "object_gc_callback", "flush"}
    /\ last.pre_bound
    /\ last.pre_persistent
    /\ last.ptr \notin DOMAIN objects_index
    /\ last.ptr \notin persistent_objects
    /\ DOMAIN objects_index # {}

\* a call of get_cached_function / release_function
IsGetStep == flast'.op = "get_cached_function" /\ function_bank' # function_bank
IsReleaseStep ==
    /\ flast'.op = "release_function"
    /\ <<function_bank, function_refs, flast>>' # <<function_bank, function_refs, flast>>

\* C35: the function cache is reference counted. get_cached_function returns the id of
\* a cached function and raises its count by one, and creates one entry (count one,
\* an id not in use) for a new function; release_function lowers the count by one and
\* removes the entry from the bank and from the back-link map exactly when the count
\* reaches zero, that is when it has been released as often as retained; the bank and
\* the back-link map hold the same entries after every step; release_function of an
\* id that is not in the bank returns false and changes nothing.
C35_FunctionCacheCounted ==
    [][/\ DOMAIN function_bank' = {function_refs'[f] : f \in DOMAIN function_refs'}
       /\ \A f \in DOMAIN function_refs' : function_bank'[function_refs'[f]].object_ = f
       /\ \A id \in DOMAIN function_bank' : function_bank'[id].ref_count_ >= 1
       /\ IsGetStep =>
             LET f == flast'.func
                 id == flast'.ret
             IN /\ id = flast'.id
                /\ \A k \in DOMAIN function_bank \ {id} :
                      k \in DOMAIN function_bank' /\ function_bank'[k] = function_bank[k]
                /\ DOMAIN function_bank' = DOMAIN function_bank \cup {id}
                /\ IF f \in DOMAIN function_refs
                   THEN /\ id = function_refs[f]
                        /\ function_bank'[id].ref_count_ = function_bank[id].ref_count_ + 1
                        /\ function_refs' = function_refs
                   ELSE /\ id \notin DOMAIN function_bank
                        /\ function_bank'[id] = [object_ |-> f, ref_count_ |-> 1]
                        /\ DOMAIN function_refs' = DOMAIN function_refs \cup {f}
                        /\ function_refs'[f] = id
       /\ IsReleaseStep =>
             LET id == flast'.id
             IN IF id \notin DOMAIN function_bank
                THEN /\ flast'.ret = "false"
                     /\ UNCHANGED <<function_bank, function_refs>>
                ELSE /\ flast'.ret = "true"
                     /\ \A k \in DOMAIN function_bank \ {id} :
                           k \in DOMAIN function_bank' /\ function_bank'[k] = function_bank[k]
                     /\ IF function_bank[id].ref_count_ = 1
                        THEN /\ id \notin DOMAIN function_bank'
                             /\ function_bank[id].object_ \notin DOMAIN function_refs'
                        ELSE /\ id \in DOMAIN function_bank'
                             /\ function_bank'[id].ref_count_ = function_bank[id].ref_count_ - 1
                             /\ function_refs' = function_refs
      ]_vars

\* the last release of a function has removed its entry from the bank and from the
\* back-link map, while the entry of a function retained twice remains
C35_Witness ==
    /\ flast.op = "release_function"
    /\ flast.ret = "true"
    /\ flast.id = 1
    /\ 1 \notin DOMAIN function_bank
    /\ "f1" \notin DOMAIN function_refs
    /\ 2 \in DOMAIN function_bank
    /\ function_refs["f2"] = 2
    /\ function_bank[2].ref_count_ = 2

\* C36: every variant handed to the backing-store deleter is deallocated exactly once:
\* the call of the deleter leaves it queued or deallocated, it is deallocated in place
\* only if it is not a composite, the bridge cannot be looked up or the buffer is
\* full, a queued variant is deallocated by exec_sync_delete and by nothing else, a
\* deallocated variant is never touched again, and nothing is left in the buffer when
\* the destructor has finished.
C36_DeallocatedExactlyOnce ==
    /\ [][\A v \in Variants :
             /\ variants[v].state = "freed" => variants'[v] = variants[v]
             /\ (variants[v].state = "queued" /\ variants'[v] # variants[v]) =>
                   /\ variants'[v].state = "freed"
                   /\ variants'[v].freed_by = OwnerThread
                   /\ pending_delete' = <<>>
             /\ (variants[v].state = "bound" /\ variants'[v].state = "freed"
                   /\ isolate_' = "alive" /\ variants[v].type \in Composite) =>
                   \/ AccessResult = "empty"
                   \/ Len(pending_delete) >= QueueCapacity
             /\ variants'[v].state = "queued" <=> v \in {pending_delete'[i] : i \in DOMAIN pending_delete'}
          ]_vars
    /\ [](\A v \in Variants : variants[v].state # "handed")
    /\ [](dtor_pc = "done" =>
             /\ pending_delete = <<>>
             /\ \A v \in Variants : variants[v].state \in {"unbound", "freed"})

\* C37: a load of an identifier of a namespace loader whose earlier load failed (its
\* record is cached and not loaded) invokes the loader again without tripping the
\* 'module loader does not support reloading' assertion, and marks the record loaded
\* when the loader succeeds.
C37_LoaderRetryAfterFailure ==
    [][(/\ IsLoadStep
        /\ FindModuleLoader(mlast'.id)
        /\ mlast'.id \in DOMAIN module_cache
        /\ ~module_cache[mlast'.id].loaded) =>
            /\ fault' = "none"
            /\ mlast'.loader
            /\ mlast'.error = "none" => IsLoaded(module_cache'[mlast'.id])
      ]_vars

\* C38: a load that runs the body of a cached module and fails leaves the fingerprint
\* of the module as it was before the attempt.
C38_FailedLoadKeepsFingerprint ==
    [][(/\ IsLoadStep
        /\ mlast'.ran = 1
        /\ mlast'.ret = <<>>
        /\ mlast'.path \in DOMAIN module_cache) =>
            module_cache'[mlast'.path].hash = module_cache[mlast'.path].hash
      ]_vars

\* C39: get_source_info checks an absolute identifier at that path only, never under a
\* search path; a non-absolute identifier is combined with the search paths in the order
\* they were added, and the first path under which check_file_path succeeds gives the
\* result; whenever it returns false the output source info is empty.
C39_AbsoluteElseFirstSearchPath ==
    slast.op = "get_source_info" =>
        LET sp == slast.search_paths
            id == slast.id
            Found(p) == ExtendsWith(p) \in SourceFiles \/ PackageMain(p) # <<>>
            File(p) == IF ExtendsWith(p) \in SourceFiles THEN ExtendsWith(p) ELSE PackageMain(p)
            hits == {i \in 1..Len(sp) : Found(Combine(sp[i], id))}
            first == CHOOSE i \in hits : \A j \in hits : i <= j
        IN /\ IsAbsolutePath(id) =>
                 /\ slast.checked = <<id>>
                 /\ slast.ret = Found(id)
                 /\ slast.ret => slast.r_source_info.source_filepath = File(id)
           /\ ~IsAbsolutePath(id) =>
                 /\ slast.ret = (hits # {})
                 /\ slast.ret =>
                       /\ slast.checked = [i \in 1..first |-> Combine(sp[i], id)]
                       /\ slast.r_source_info.source_filepath = File(Combine(sp[first], id))
                 /\ ~slast.ret => slast.checked = [i \in 1..Len(sp) |-> Combine(sp[i], id)]
           /\ ~slast.ret => slast.r_source_info = [source_filepath |-> <<>>,
                                                    package_filepath |-> <<>>]

\* "c" exists under both search paths: the one added first gives the file
C39_Witness ==
    /\ slast.op = "get_source_info"
    /\ slast.id = <<"c">>
    /\ slast.search_paths = << <<Root, "lib">>, <<Root>> >>
    /\ slast.ret
    /\ slast.r_source_info.source_filepath = <<Root, "lib", "c.js">>
    /\ slast.checked = << <<Root, "lib", "c">> >>
====
